---- MODULE Spec2Model ----
(***************************************************************************)
(* Model of the shift scheduler component (ShiftScheduler.tsx): the roster *)
(* and settings state, and generateShifts walked one cell visit at a time. *)
(***************************************************************************)
EXTENDS Integers, Sequences, FiniteSets, TLC

(***************************************************************************)
(* Bounds of the model                                                     *)
(***************************************************************************)
MaxPeople == 2
MaxHeadcount == 2
MaxCap == 3
MaxRuns == 2
\* latest clock reading at which a member is added by hand
MaxTime == 4
\* days of the week the loop of the earlier variant is followed through
MaxLegacyDays == 2

(***************************************************************************)
(* Program constants                                                       *)
(***************************************************************************)
TIME_SLOTS == <<"06:00-12:00", "12:00-18:00", "18:00-00:00", "00:00-06:00">>

\* the week loops `for (let day = 0; day < 7; day++)`
NumDays == 7

\* `const maxIterations = 5`
maxIterations == 5

\* useState(10) for maxShiftsPerEmployee
DefaultCap == 10

isDayShift(timeSlot) == timeSlot \in {"06:00-12:00", "12:00-18:00"}

(***************************************************************************)
(* Array helpers (Array.prototype.includes / indexOf, Math.min / max)       *)
(***************************************************************************)
Includes(seq, x) == \E i \in 1..Len(seq) : seq[i] = x

\* 0-based index of the first occurrence, -1 when absent
IndexOf(seq, x) ==
  IF Includes(seq, x)
    THEN (CHOOSE i \in 1..Len(seq) : seq[i] = x /\ \A j \in 1..(i-1) : seq[j] # x) - 1
    ELSE -1

Min(a, b) == IF a <= b THEN a ELSE b
Max(a, b) == IF a >= b THEN a ELSE b

SetMin(S) == CHOOSE x \in S : \A y \in S : x <= y
SetMax(S) == CHOOSE x \in S : \A y \in S : x >= y

\* number of occurrences of x in seq
Occurrences(seq, x) == Cardinality({i \in 1..Len(seq) : seq[i] = x})

(***************************************************************************)
(* Cells of the week in loop order: day outer, TIME_SLOTS inner            *)
(***************************************************************************)
NumCells == NumDays * Len(TIME_SLOTS)
CellDay(k) == (k - 1) \div Len(TIME_SLOTS)
CellSlot(k) == TIME_SLOTS[((k - 1) % Len(TIME_SLOTS)) + 1]

(***************************************************************************)
(* Normalisation of loaded data (legacy four-hour slots)                   *)
(***************************************************************************)
LEGACY_SLOT_MAP ==
  [slot \in {"06:00-10:00", "10:00-14:00", "14:00-18:00",
             "18:00-22:00", "22:00-02:00", "02:00-06:00"} |->
     CASE slot = "06:00-10:00" -> <<"06:00-12:00">>
       [] slot = "10:00-14:00" -> <<"06:00-12:00", "12:00-18:00">>
       [] slot = "14:00-18:00" -> <<"12:00-18:00">>
       [] slot = "18:00-22:00" -> <<"18:00-00:00">>
       [] slot = "22:00-02:00" -> <<"18:00-00:00", "00:00-06:00">>
       [] slot = "02:00-06:00" -> <<"00:00-06:00">>]

\* the Set collected by slots.forEach, then TIME_SLOTS.filter(slot => normalized.has(slot))
normalizeSlotsToCurrent(slots) ==
  LET normalized ==
        UNION {IF Includes(TIME_SLOTS, slots[i])
                 THEN {slots[i]}
                 ELSE IF slots[i] \in DOMAIN LEGACY_SLOT_MAP
                        THEN {LEGACY_SLOT_MAP[slots[i]][j] :
                                j \in 1..Len(LEGACY_SLOT_MAP[slots[i]])}
                        ELSE {} : i \in 1..Len(slots)}
  IN  SelectSeq(TIME_SLOTS, LAMBDA slot : slot \in normalized)

\* mutant: a day is kept whenever the input has it
normalizeAvailabilityMapKeepEmpty(availability) ==
  LET daySlots(day) == IF day \in DOMAIN availability THEN availability[day] ELSE <<>>
      kept == {day \in 0..(NumDays - 1) : day \in DOMAIN availability}
  IN  [day \in kept |-> normalizeSlotsToCurrent(daySlots(day))]

\* days 0..6 only; a day is kept when some slot survives
normalizeAvailabilityMap(availability) ==
  LET daySlots(day) == IF day \in DOMAIN availability THEN availability[day] ELSE <<>>
      kept == {day \in 0..(NumDays - 1) : Len(normalizeSlotsToCurrent(daySlots(day))) > 0}
  IN  [day \in kept |-> normalizeSlotsToCurrent(daySlots(day))]

normalizeTeamMember(member) ==
  [member EXCEPT !.availableShifts = normalizeAvailabilityMap(member.availableShifts)]

\* first occurrences of seq, in order: Array.from(new Set(seq))
Unique(seq) ==
  LET F[i \in 0..Len(seq)] ==
        IF i = 0 THEN <<>>
        ELSE IF Includes(F[i-1], seq[i]) THEN F[i-1] ELSE Append(F[i-1], seq[i])
  IN  F[Len(seq)]

\* normalizeShift: <<>> stands for null, <<shift>> for a kept shift
normalizeShift(shift) ==
  IF Includes(TIME_SLOTS, shift.timeSlot)
    THEN <<shift>>
    ELSE LET mappedSlots == normalizeSlotsToCurrent(<<shift.timeSlot>>)
         IN  IF Len(mappedSlots) = 0
               THEN <<>>
               ELSE <<[shift EXCEPT !.timeSlot = mappedSlots[1]]>>

\* comparator of normalized.sort: day, then position in TIME_SLOTS
CompareNormalized(a, b) ==
  IF a.day # b.day
    THEN a.day - b.day
    ELSE IndexOf(TIME_SLOTS, a.timeSlot) - IndexOf(TIME_SLOTS, b.timeSlot)

InsertNormalized(sorted, x) ==
  LET below == {j \in 1..Len(sorted) : CompareNormalized(sorted[j], x) <= 0}
      p == IF below = {} THEN 0 ELSE SetMax(below)
  IN  SubSeq(sorted, 1, p) \o <<x>> \o SubSeq(sorted, p + 1, Len(sorted))

SortNormalized(seq) ==
  LET F[i \in 0..Len(seq)] ==
        IF i = 0 THEN <<>> ELSE InsertNormalized(F[i-1], seq[i])
  IN  F[Len(seq)]

\* normalizeShifts: entries of one cell are merged, then the list is sorted
normalizeShifts(shiftList) ==
  LET F[i \in 0..Len(shiftList)] ==
        IF i = 0 THEN <<>>
        ELSE LET one == normalizeShift(shiftList[i])
                 normalized == F[i-1]
             IN  IF Len(one) = 0 THEN normalized
                 ELSE LET same == {j \in 1..Len(normalized) :
                                     /\ normalized[j].day = one[1].day
                                     /\ normalized[j].timeSlot = one[1].timeSlot}
                      IN  IF same # {}
                            THEN LET existingIndex == SetMin(same)
                                 IN  [normalized EXCEPT ![existingIndex].members =
                                        Unique(@ \o one[1].members)]
                            ELSE Append(normalized, one[1])
  IN  SortNormalized(F[Len(shiftList)])

(***************************************************************************)
(* Availability                                                            *)
(***************************************************************************)
\* `member.availableShifts[day] || []`
DayAvailable(member, day) ==
  IF day \in DOMAIN member.availableShifts THEN member.availableShifts[day] ELSE <<>>

\* mutant: only the day is tested, not the slot
IsAvailableAnySlot(member, day, timeSlot) == Len(DayAvailable(member, day)) > 0

IsAvailable(member, day, timeSlot) == Includes(DayAvailable(member, day), timeSlot)

\* Step 1: the counter of one member, incremented once per available cell
CountAvailable(member) ==
  Cardinality({k \in 1..NumCells : IsAvailable(member, CellDay(k), CellSlot(k))})

RosterNames(members) == {members[i].name : i \in 1..Len(members)}

\* workerAvailability is keyed by name and re-initialised at every member:
\* the last member carrying a name decides the entry.
WorkerAvailabilityOf(members) ==
  [n \in RosterNames(members) |->
     LET last == SetMax({i \in 1..Len(members) : members[i].name = n})
     IN  CountAvailable(members[last])]

\* mutant: the availability filter is dropped, every member is a candidate
AvailableWorkersUnfiltered(members, day, timeSlot) ==
  [i \in 1..Len(members) |-> members[i].name]

\* Step 2: teamMembers.filter(available).map(m => m.name), in roster order
AvailableWorkers(members, day, timeSlot) ==
  LET F[i \in 0..Len(members)] ==
        IF i = 0 THEN <<>>
        ELSE IF IsAvailable(members[i], day, timeSlot)
               THEN Append(F[i-1], members[i].name)
               ELSE F[i-1]
  IN  F[Len(members)]

\* Step 2: only cells with at least one available worker are kept, in the
\* order of the two loops
BuildAllShifts(members) ==
  LET kept == {k \in 1..NumCells :
                 Len(AvailableWorkers(members, CellDay(k), CellSlot(k))) > 0}
      places == {<<Cardinality({m \in kept : m <= k}), k>> : k \in kept}
  IN  [j \in 1..Cardinality(kept) |->
         LET k == (CHOOSE p \in places : p[1] = j)[2]
         IN  [day |-> CellDay(k), timeSlot |-> CellSlot(k),
              availableWorkers |-> AvailableWorkers(members, CellDay(k), CellSlot(k))]]

\* mutant: the slot is compared before the day
CompareShiftsSlotFirst(a, b) ==
  IF Len(a.availableWorkers) # Len(b.availableWorkers)
    THEN Len(a.availableWorkers) - Len(b.availableWorkers)
    ELSE IF a.timeSlot # b.timeSlot
      THEN IndexOf(TIME_SLOTS, a.timeSlot) - IndexOf(TIME_SLOTS, b.timeSlot)
      ELSE a.day - b.day

\* mutant: the number of available workers is not compared
CompareShiftsNoScarcity(a, b) ==
  IF a.day # b.day
    THEN a.day - b.day
    ELSE IndexOf(TIME_SLOTS, a.timeSlot) - IndexOf(TIME_SLOTS, b.timeSlot)

\* Step 3: comparator of allShifts.sort
CompareShifts(a, b) ==
  IF Len(a.availableWorkers) # Len(b.availableWorkers)
    THEN Len(a.availableWorkers) - Len(b.availableWorkers)
    ELSE IF a.day # b.day
      THEN a.day - b.day
      ELSE IndexOf(TIME_SLOTS, a.timeSlot) - IndexOf(TIME_SLOTS, b.timeSlot)

\* Array.prototype.sort is stable: an element comes after the elements that
\* compare smaller and after the earlier elements that compare equal.
SortShifts(seq) ==
  LET before(j, i) ==
        \/ CompareShifts(seq[j], seq[i]) < 0
        \/ CompareShifts(seq[j], seq[i]) = 0 /\ j < i
      places == {<<1 + Cardinality({j \in 1..Len(seq) : before(j, i)}), i>> :
                   i \in 1..Len(seq)}
  IN  [r \in 1..Len(seq) |-> seq[(CHOOSE p \in places : p[1] = r)[2]]]

SortedAllShifts(members) == SortShifts(BuildAllShifts(members))

(***************************************************************************)
(* Step 4: one cell visit                                                  *)
(***************************************************************************)
\* mutant: the day and night settings are swapped
ExactWorkersSwapped(timeSlot, dayW, nightW) == IF isDayShift(timeSlot) THEN nightW ELSE dayW

ExactWorkers(timeSlot, dayW, nightW) == IF isDayShift(timeSlot) THEN dayW ELSE nightW

AssignedCount(shift, dayW, nightW) ==
  Min(ExactWorkers(shift.timeSlot, dayW, nightW), Len(shift.availableWorkers))

\* mutant: the cap test is off by one (<= instead of <)
EligibleWorkersOffByOne(shift, count, cap) ==
  SelectSeq(shift.availableWorkers, LAMBDA w : count[w] <= cap)

\* shift.availableWorkers.filter(worker => workerShiftCount[worker] < maxShiftsPerEmployee)
EligibleWorkers(shift, count, cap) ==
  SelectSeq(shift.availableWorkers, LAMBDA w : count[w] < cap)

\* mutant: the primary key is reversed, the most loaded candidate ranks first
CompareWorkersReversed(count, avail, a, b) ==
  IF count[a] # count[b]
    THEN count[b] - count[a]
    ELSE avail[b] - avail[a]

\* Comparator of eligibleWorkers.sort.  The ratios count/max(avail,1) are
\* compared exactly: |ca/ma - cb/mb| > 0.00001 iff |ca*mb - cb*ma| * 100000 > ma*mb.
CompareWorkers(count, avail, a, b) ==
  IF count[a] # count[b]
    THEN count[a] - count[b]
    ELSE LET ma == Max(avail[a], 1)
             mb == Max(avail[b], 1)
             diff == count[a] * mb - count[b] * ma
             absdiff == IF diff < 0 THEN 0 - diff ELSE diff
         IN  IF absdiff * 100000 > ma * mb
               THEN diff
               ELSE avail[b] - avail[a]

\* the same stable sort under CompareWorkers
InsertWorker(count, avail, sorted, x) ==
  LET below == {j \in 1..Len(sorted) : CompareWorkers(count, avail, sorted[j], x) <= 0}
      p == IF below = {} THEN 0 ELSE SetMax(below)
  IN  SubSeq(sorted, 1, p) \o <<x>> \o SubSeq(sorted, p + 1, Len(sorted))

SortWorkers(count, avail, seq) ==
  LET F[i \in 0..Len(seq)] ==
        IF i = 0 THEN <<>> ELSE InsertWorker(count, avail, F[i-1], seq[i])
  IN  F[Len(seq)]

SortedWorkers(shift, count, avail, cap) ==
  SortWorkers(count, avail, EligibleWorkers(shift, count, cap))

\* mutant: the best-ranked worker fills every place of the cell
AssignedWorkersRepeated(shift, count, avail, dayW, nightW, cap) ==
  LET sorted == SortedWorkers(shift, count, avail, cap)
  IN  [i \in 1..Min(AssignedCount(shift, dayW, nightW), Len(sorted)) |-> sorted[1]]

\* sortedWorkers.slice(0, Math.min(assignedCount, eligibleWorkers.length))
AssignedWorkers(shift, count, avail, dayW, nightW, cap) ==
  LET sorted == SortedWorkers(shift, count, avail, cap)
  IN  SubSeq(sorted, 1, Min(AssignedCount(shift, dayW, nightW), Len(sorted)))

\* mutant: the test that some candidate is under the cap is dropped
CellFilledWithoutCapTest(shift, count, dayW, nightW, cap) ==
  AssignedCount(shift, dayW, nightW) > 0

\* whether the visit records an entry
CellFilled(shift, count, dayW, nightW, cap) ==
  /\ AssignedCount(shift, dayW, nightW) > 0
  /\ Len(EligibleWorkers(shift, count, cap)) > 0

\* mutant: only the first assigned worker is counted
CountAfterFirstOnly(count, assigned) ==
  [n \in DOMAIN count |-> IF Len(assigned) > 0 /\ assigned[1] = n THEN count[n] + 1 ELSE count[n]]

\* assignedWorkers.forEach(worker => workerShiftCount[worker]++)
CountAfter(count, assigned) ==
  [n \in DOMAIN count |-> count[n] + Occurrences(assigned, n)]

(***************************************************************************)
(* End of a pass: the termination check                                    *)
(***************************************************************************)
ShiftCounts(count) == {count[n] : n \in {m \in DOMAIN count : count[m] > 0}}

Range(count) == SetMax(ShiftCounts(count)) - SetMin(ShiftCounts(count))

GoodEnough(count, it) ==
  /\ ShiftCounts(count) # {}
  /\ (Range(count) <= 1 \/ (Range(count) <= 2 /\ it >= 2))

(***************************************************************************)
(* The whole of generateShifts as a function of roster and settings        *)
(***************************************************************************)
\* allShifts.forEach from cell i on, with the counts and entries so far
RECURSIVE VisitFrom(_, _, _, _, _, _, _)
VisitFrom(all, avail, dayW, nightW, cap, i, sofar) ==
  IF i > Len(all)
    THEN sofar
    ELSE LET assigned == AssignedWorkers(all[i], sofar.count, avail, dayW, nightW, cap)
         IN  IF CellFilled(all[i], sofar.count, dayW, nightW, cap)
               THEN VisitFrom(all, avail, dayW, nightW, cap, i + 1,
                              [count |-> CountAfter(sofar.count, assigned),
                               newShifts |-> Append(sofar.newShifts,
                                                    [day |-> all[i].day,
                                                     timeSlot |-> all[i].timeSlot,
                                                     members |-> assigned])])
               ELSE VisitFrom(all, avail, dayW, nightW, cap, i + 1, sofar)

\* allShifts.forEach from zeroed counts and an empty newShifts
PassResult(all, avail, dayW, nightW, cap) ==
  VisitFrom(all, avail, dayW, nightW, cap, 1,
            [count |-> [n \in DOMAIN avail |-> 0], newShifts |-> <<>>])

RECURSIVE RunLoop(_, _, _, _, _, _)
RunLoop(all, avail, dayW, nightW, cap, it) ==
  LET res == PassResult(all, avail, dayW, nightW, cap)
  IN  IF GoodEnough(res.count, it) \/ it + 1 >= maxIterations
        THEN res
        ELSE RunLoop(all, avail, dayW, nightW, cap, it + 1)

GenerateResult(members, dayW, nightW, cap) ==
  RunLoop(SortedAllShifts(members), WorkerAvailabilityOf(members), dayW, nightW, cap, 0)

(***************************************************************************)
(* getShiftSummary: the number of member-list positions holding a name     *)
(***************************************************************************)
SummaryCount(shiftList, name) ==
  Cardinality({p \in UNION {{<<i, j>> : j \in 1..Len(shiftList[i].members)} :
                                i \in 1..Len(shiftList)} :
                 shiftList[p[1]].members[p[2]] = name})

(***************************************************************************)
(* Inputs: rosters and settings the component can hold                     *)
(***************************************************************************)
AllDays == 0..(NumDays - 1)
Full == [d \in AllDays |-> TIME_SLOTS]
DayOnly == [d \in AllDays |-> <<"06:00-12:00", "12:00-18:00">>]
NightOnly == [d \in AllDays |-> <<"18:00-00:00", "00:00-06:00">>]
NoAvail == [d \in {} |-> <<>>]
EarlyWeek == [d \in {0, 1} |-> IF d = 0 THEN <<"06:00-12:00", "18:00-00:00">>
                                        ELSE <<"12:00-18:00">>]

AvailChoices == {Full, DayOnly, NightOnly, NoAvail, EarlyWeek}

NameList == <<"a", "b", "c", "d", "e">>

\* rosters of n members: the names are pairwise distinct, or the last member
\* carries the name of the first (nothing in addTeamMember prevents it)
RosterOfSize(n) ==
  {[i \in 1..n |-> [id |-> i,
                    name |-> IF dup /\ n >= 2 /\ i = n THEN NameList[1] ELSE NameList[i],
                    availableShifts |-> av[i]]] :
     av \in [1..n -> AvailChoices], dup \in BOOLEAN}

Rosters == UNION {RosterOfSize(n) : n \in 0..MaxPeople}

HeadcountChoices == 1..MaxHeadcount
CapChoices == (1..MaxCap) \cup {DefaultCap}

(***************************************************************************)
(* State                                                                   *)
(***************************************************************************)
VARIABLES teamMembers, dayShiftWorkers, nightShiftWorkers, maxShiftsPerEmployee,
          shifts, pc, workerAvailability, workerShiftCount, allShifts, newShifts,
          iteration, shiftIndex, invocation, editingShift, editValue

vars == <<teamMembers, dayShiftWorkers, nightShiftWorkers, maxShiftsPerEmployee,
          shifts, pc, workerAvailability, workerShiftCount, allShifts, newShifts,
          iteration, shiftIndex, invocation, editingShift, editValue>>

\* the cell being edited by hand and the text of its input
editing == <<editingShift, editValue>>

\* editingShift when no cell is being edited
null == [day |-> 0 - 1, timeSlot |-> "null"]

inputs == <<teamMembers, dayShiftWorkers, nightShiftWorkers, maxShiftsPerEmployee>>

Init ==
  /\ teamMembers \in Rosters
  /\ dayShiftWorkers \in HeadcountChoices
  /\ nightShiftWorkers \in HeadcountChoices
  /\ maxShiftsPerEmployee \in CapChoices
  /\ shifts = <<>>
  /\ pc = "idle"
  /\ workerAvailability = <<>>
  /\ workerShiftCount = <<>>
  /\ allShifts = <<>>
  /\ newShifts = <<>>
  /\ iteration = 0
  /\ shiftIndex = 1
  /\ invocation = 0
  /\ editingShift = null
  /\ editValue = <<>>

\* mutant: the load counters outlive the call (kept from the previous call)
StartLocalsStale ==
  /\ workerAvailability' = WorkerAvailabilityOf(teamMembers)
  /\ workerShiftCount' = IF pc = "done" THEN workerShiftCount
                                        ELSE [n \in RosterNames(teamMembers) |-> 0]
  /\ allShifts' = SortedAllShifts(teamMembers)
  /\ newShifts' = <<>>
  /\ iteration' = 0
  /\ shiftIndex' = 1
  /\ pc' = "pass"
  /\ invocation' = invocation + 1
  /\ UNCHANGED <<inputs, shifts>>
  /\ UNCHANGED editing

\* generateShifts, steps 1 to 3: fresh locals for this call, up to the first pass
StartLocals ==
  /\ workerAvailability' = WorkerAvailabilityOf(teamMembers)
  /\ workerShiftCount' = [n \in RosterNames(teamMembers) |-> 0]
  /\ allShifts' = SortedAllShifts(teamMembers)
  /\ newShifts' = <<>>
  /\ iteration' = 0
  /\ shiftIndex' = 1
  /\ pc' = "pass"
  /\ invocation' = invocation + 1
  /\ UNCHANGED <<inputs, shifts>>
  /\ UNCHANGED editing

\* the first call of generateShifts
GenerateStart ==
  /\ pc = "idle"
  /\ StartLocals

\* generateShifts called again on the same roster and settings
Regenerate ==
  /\ pc = "done"
  /\ invocation < MaxRuns
  /\ StartLocals

\* one callback of allShifts.forEach
VisitCell ==
  /\ pc = "pass"
  /\ shiftIndex <= Len(allShifts)
  /\ LET shift == allShifts[shiftIndex]
         assigned == AssignedWorkers(shift, workerShiftCount, workerAvailability,
                                     dayShiftWorkers, nightShiftWorkers,
                                     maxShiftsPerEmployee)
     IN  IF CellFilled(shift, workerShiftCount, dayShiftWorkers, nightShiftWorkers,
                       maxShiftsPerEmployee)
           THEN /\ workerShiftCount' = CountAfter(workerShiftCount, assigned)
                /\ newShifts' = Append(newShifts, [day |-> shift.day,
                                                   timeSlot |-> shift.timeSlot,
                                                   members |-> assigned])
           ELSE UNCHANGED <<workerShiftCount, newShifts>>
  /\ shiftIndex' = shiftIndex + 1
  /\ UNCHANGED <<inputs, shifts, pc, workerAvailability, allShifts, iteration, invocation>>
  /\ UNCHANGED editing

\* mutant: the next iteration clears the entries but keeps the counts
NextPassKeepsCounts ==
  /\ pc = "pass"
  /\ shiftIndex > Len(allShifts)
  /\ ~GoodEnough(workerShiftCount, iteration)
  /\ iteration + 1 < maxIterations
  /\ iteration' = iteration + 1
  /\ newShifts' = <<>>
  /\ shiftIndex' = 1
  /\ UNCHANGED <<inputs, shifts, pc, workerAvailability, workerShiftCount, allShifts,
                 invocation>>
  /\ UNCHANGED editing

\* mutant: the next iteration keeps the counts and the entries of the last one
NextPassWithoutReset ==
  /\ pc = "pass"
  /\ shiftIndex > Len(allShifts)
  /\ ~GoodEnough(workerShiftCount, iteration)
  /\ iteration + 1 < maxIterations
  /\ iteration' = iteration + 1
  /\ shiftIndex' = 1
  /\ UNCHANGED <<inputs, shifts, pc, workerAvailability, workerShiftCount, allShifts,
                 newShifts, invocation>>
  /\ UNCHANGED editing

\* mutant: the loop bound is off by one (<= instead of <)
NextPassOffByOne ==
  /\ pc = "pass"
  /\ shiftIndex > Len(allShifts)
  /\ ~GoodEnough(workerShiftCount, iteration)
  /\ iteration + 1 <= maxIterations
  /\ iteration' = iteration + 1
  /\ workerShiftCount' = [n \in DOMAIN workerShiftCount |-> 0]
  /\ newShifts' = <<>>
  /\ shiftIndex' = 1
  /\ UNCHANGED <<inputs, shifts, pc, workerAvailability, allShifts, invocation>>
  /\ UNCHANGED editing

\* the pass is over, the distribution is not good enough and passes remain:
\* the next iteration resets the counts and clears newShifts
NextPass ==
  /\ pc = "pass"
  /\ shiftIndex > Len(allShifts)
  /\ ~GoodEnough(workerShiftCount, iteration)
  /\ iteration + 1 < maxIterations
  /\ iteration' = iteration + 1
  /\ workerShiftCount' = [n \in DOMAIN workerShiftCount |-> 0]
  /\ newShifts' = <<>>
  /\ shiftIndex' = 1
  /\ UNCHANGED <<inputs, shifts, pc, workerAvailability, allShifts, invocation>>
  /\ UNCHANGED editing

\* mutant: the new entries are appended to the stored ones
FinishMerged ==
  /\ pc = "pass"
  /\ shiftIndex > Len(allShifts)
  /\ (GoodEnough(workerShiftCount, iteration) \/ iteration + 1 >= maxIterations)
  /\ shifts' = shifts \o newShifts
  /\ pc' = "done"
  /\ UNCHANGED <<inputs, workerAvailability, workerShiftCount, allShifts, newShifts,
                 iteration, shiftIndex, invocation>>
  /\ UNCHANGED editing

\* break, or the loop ran out of iterations: setShifts(newShifts)
Finish ==
  /\ pc = "pass"
  /\ shiftIndex > Len(allShifts)
  /\ (GoodEnough(workerShiftCount, iteration) \/ iteration + 1 >= maxIterations)
  /\ shifts' = newShifts
  /\ pc' = "done"
  /\ UNCHANGED <<inputs, workerAvailability, workerShiftCount, allShifts, newShifts,
                 iteration, shiftIndex, invocation>>
  /\ UNCHANGED editing

Next == GenerateStart \/ VisitCell \/ NextPass \/ Finish

Spec == Init /\ [][Next]_vars

\* generateShifts is one synchronous call: once started, its steps are taken
RunStep == VisitCell \/ NextPass \/ Finish

SpecFair == Init /\ [][Next]_vars /\ WF_vars(RunStep)

NextRerun == Next \/ Regenerate

SpecRerun == Init /\ [][NextRerun]_vars

(***************************************************************************)
(* Teams: rosters of three or more people with pairwise distinct names     *)
(***************************************************************************)
TeamAvailChoices == {Full, DayOnly, EarlyWeek}

TeamOfSize(n) ==
  {[i \in 1..n |-> [id |-> i, name |-> NameList[i], availableShifts |-> av[i]]] :
     av \in [1..n -> TeamAvailChoices]}

Teams == UNION {TeamOfSize(n) : n \in 3..(MaxPeople + 1)}

TeamCapChoices == CapChoices \cup {20}

InitTeam ==
  /\ teamMembers \in Teams
  /\ dayShiftWorkers \in HeadcountChoices
  /\ nightShiftWorkers \in HeadcountChoices
  /\ maxShiftsPerEmployee \in TeamCapChoices
  /\ shifts = <<>>
  /\ pc = "idle"
  /\ workerAvailability = <<>>
  /\ workerShiftCount = <<>>
  /\ allShifts = <<>>
  /\ newShifts = <<>>
  /\ iteration = 0
  /\ shiftIndex = 1
  /\ invocation = 0
  /\ editingShift = null
  /\ editValue = <<>>

SpecTeam == InitTeam /\ [][Next]_vars

\* rosters of three or more people in which the last member carries the name
\* of the first (nothing in addTeamMember prevents it)
OneCell == [d \in {0} |-> <<"06:00-12:00">>]
FirstDay == [d \in {0} |-> TIME_SLOTS]

TwinAvailChoices == {OneCell, EarlyWeek, FirstDay}

TwinTeamOfSize(n) ==
  {[i \in 1..n |-> [id |-> i,
                    name |-> IF i = n THEN NameList[1] ELSE NameList[i],
                    availableShifts |-> av[i]]] :
     av \in [1..n -> TwinAvailChoices]}

TwinTeams == UNION {TwinTeamOfSize(n) : n \in 3..(MaxPeople + 1)}

InitTwin ==
  /\ teamMembers \in TwinTeams
  /\ dayShiftWorkers \in HeadcountChoices
  /\ nightShiftWorkers \in HeadcountChoices
  /\ maxShiftsPerEmployee \in CapChoices
  /\ shifts = <<>>
  /\ pc = "idle"
  /\ workerAvailability = <<>>
  /\ workerShiftCount = <<>>
  /\ allShifts = <<>>
  /\ newShifts = <<>>
  /\ iteration = 0
  /\ shiftIndex = 1
  /\ invocation = 0
  /\ editingShift = null
  /\ editValue = <<>>

SpecTwin == InitTwin /\ [][Next]_vars

(***************************************************************************)
(* The mounted component: loads from local storage and from a shared blob, *)
(* the settings fields, then generateShifts                                *)
(***************************************************************************)
\* `settings.key || fallback`: a missing key and 0 are falsy
SettingOr(settings, key, fallback) ==
  IF key \in DOMAIN settings /\ settings[key] # 0 THEN settings[key] ELSE fallback

DigitChars == <<"0", "1", "2", "3", "4", "5", "6", "7", "8", "9">>

\* e.target.value.replace(/\D/g, '')
StripNonDigits(text) == SelectSeq(text, LAMBDA c : Includes(DigitChars, c))

\* parseInt of a string of digits
ParseInt(digits) ==
  LET F[i \in 0..Len(digits)] ==
        IF i = 0 THEN 0 ELSE F[i-1] * 10 + IndexOf(DigitChars, digits[i])
  IN  F[Len(digits)]

\* the value a settings field commits on blur
BlurValue(text) ==
  LET value == StripNonDigits(text)
  IN  IF Len(value) = 0 \/ ParseInt(value) < 1 THEN 1 ELSE ParseInt(value)

\* texts left in a headcount field and in the cap field
HeadcountTexts ==
  {<<>>, <<"0">>, <<"-", "1">>, <<"x">>} \cup {<<DigitChars[d + 1]>> : d \in 1..MaxHeadcount}
CapTexts ==
  {<<>>, <<"0">>, <<"-", "1">>, <<"x">>, <<"1", "0">>} \cup {<<DigitChars[d + 1]>> : d \in 1..MaxCap}

\* parsed JSON settings objects: any key may be missing, numbers are not checked
HeadcountNumbers == {0 - 1, 0, 1, MaxHeadcount}
CapNumbers == {0 - 1, 0, 1, MaxCap}

SettingsObjects ==
  UNION {{o \in [K -> HeadcountNumbers \cup CapNumbers] :
            /\ \A k \in K \cap {"dayShiftWorkers", "nightShiftWorkers"} : o[k] \in HeadcountNumbers
            /\ \A k \in K \cap {"maxShiftsPerEmployee"} : o[k] \in CapNumbers} :
         K \in SUBSET {"dayShiftWorkers", "nightShiftWorkers", "maxShiftsPerEmployee"}}

\* availability saved by an older version: four-hour slots and an unknown one
LegacyMidday == [d \in {0} |-> <<"10:00-14:00", "08:00-09:00">>]

\* availability saved damaged: a slot out of order and twice, an empty day
\* list and a day key outside the week
Damaged ==
  [d \in {0, 1, 7} |->
     CASE d = 0 -> <<"12:00-18:00", "06:00-12:00", "12:00-18:00">>
       [] d = 1 -> <<>>
       [] d = 7 -> <<"06:00-12:00">>]

SavedAvailChoices == {Full, EarlyWeek, LegacyMidday, Damaged}

\* parsed JSON rosters (before normalizeTeamMember)
SavedTeams ==
  UNION {{[i \in 1..n |-> [id |-> i, name |-> NameList[i], availableShifts |-> av[i]]] :
            av \in [1..n -> SavedAvailChoices]} : n \in 0..MaxPeople}

\* the legacy list of worker names, read when no roster is saved
SavedNames == {<<>>, <<NameList[1]>>}

\* parsed JSON rosters of a shared blob
BlobTeams ==
  {<<>>,
   <<[id |-> 1, name |-> "a", availableShifts |-> Full]>>,
   <<[id |-> 1, name |-> "a", availableShifts |-> Full],
     [id |-> 2, name |-> "b", availableShifts |-> LegacyMidday]>>,
   <<[id |-> 1, name |-> "a", availableShifts |-> Full],
     [id |-> 2, name |-> "b", availableShifts |-> Damaged]>>}

\* parsed JSON shift lists of a shared blob (before normalizeShifts)
BlobShifts ==
  {<<>>,
   <<[day |-> 6, timeSlot |-> "00:00-06:00", members |-> <<"a">>],
     [day |-> 0, timeSlot |-> "22:00-02:00", members |-> <<"b", "z">>],
     [day |-> 0, timeSlot |-> "18:00-00:00", members |-> <<"z", "a">>]>>}

NormalizeTeam(members) == [i \in 1..Len(members) |-> normalizeTeamMember(members[i])]

InitApp ==
  /\ teamMembers = <<>>
  /\ dayShiftWorkers = 1
  /\ nightShiftWorkers = 1
  /\ maxShiftsPerEmployee = DefaultCap
  /\ shifts = <<>>
  /\ pc = "mount"
  /\ workerAvailability = <<>>
  /\ workerShiftCount = <<>>
  /\ allShifts = <<>>
  /\ newShifts = <<>>
  /\ iteration = 0
  /\ shiftIndex = 1
  /\ invocation = 0
  /\ editingShift = null
  /\ editValue = <<>>

locals == <<workerAvailability, workerShiftCount, allShifts, newShifts, iteration,
            shiftIndex, invocation>>

\* the mount effect: the saved roster (or the saved names), the saved
\* settings, and the fetch of a shared blob when the URL names one
MountEffect ==
  /\ pc = "mount"
  /\ \E savedTeamMembers \in SavedTeams, savedNames \in SavedNames,
        saved \in SettingsObjects, blob \in BOOLEAN :
        /\ teamMembers' =
             IF Len(savedTeamMembers) > 0
               THEN NormalizeTeam(savedTeamMembers)
               ELSE IF Len(savedNames) > 0
                      THEN NormalizeTeam([i \in 1..Len(savedNames) |->
                             [id |-> i, name |-> savedNames[i], availableShifts |-> Full]])
                      ELSE teamMembers
        /\ dayShiftWorkers' = SettingOr(saved, "dayShiftWorkers", 1)
        /\ nightShiftWorkers' = SettingOr(saved, "nightShiftWorkers", 1)
        /\ maxShiftsPerEmployee' = SettingOr(saved, "maxShiftsPerEmployee", 10)
        /\ pc' = IF blob THEN "fetch" ELSE "idle"
  /\ UNCHANGED <<shifts, locals>>
  /\ UNCHANGED editing

\* the fetch resolved: the blob replaces shifts, roster and settings
LoadSharedBlob ==
  /\ pc = "fetch"
  /\ \E decodedShifts \in BlobShifts, decodedTeamMembers \in BlobTeams,
        decodedSettings \in SettingsObjects :
        /\ shifts' = normalizeShifts(decodedShifts)
        /\ teamMembers' = NormalizeTeam(decodedTeamMembers)
        /\ dayShiftWorkers' = SettingOr(decodedSettings, "dayShiftWorkers", 1)
        /\ nightShiftWorkers' = SettingOr(decodedSettings, "nightShiftWorkers", 1)
        /\ maxShiftsPerEmployee' = SettingOr(decodedSettings, "maxShiftsPerEmployee", 10)
  /\ pc' = "idle"
  /\ UNCHANGED locals
  /\ UNCHANGED editing

\* the fetch failed: the catch branch changes no state of the scheduler
FetchFailed ==
  /\ pc = "fetch"
  /\ pc' = "idle"
  /\ UNCHANGED <<inputs, shifts, locals>>
  /\ UNCHANGED editing

BlurDayShiftWorkers ==
  /\ pc = "idle"
  /\ \E text \in HeadcountTexts : dayShiftWorkers' = BlurValue(text)
  /\ UNCHANGED <<teamMembers, nightShiftWorkers, maxShiftsPerEmployee, shifts, pc, locals>>
  /\ UNCHANGED editing

BlurNightShiftWorkers ==
  /\ pc = "idle"
  /\ \E text \in HeadcountTexts : nightShiftWorkers' = BlurValue(text)
  /\ UNCHANGED <<teamMembers, dayShiftWorkers, maxShiftsPerEmployee, shifts, pc, locals>>
  /\ UNCHANGED editing

BlurMaxShiftsPerEmployee ==
  /\ pc = "idle"
  /\ \E text \in CapTexts : maxShiftsPerEmployee' = BlurValue(text)
  /\ UNCHANGED <<teamMembers, dayShiftWorkers, nightShiftWorkers, shifts, pc, locals>>
  /\ UNCHANGED editing

NextApp ==
  \/ MountEffect
  \/ LoadSharedBlob
  \/ FetchFailed
  \/ BlurDayShiftWorkers
  \/ BlurNightShiftWorkers
  \/ BlurMaxShiftsPerEmployee
  \/ GenerateStart
  \/ VisitCell
  \/ NextPass
  \/ Finish

SpecApp == InitApp /\ [][NextApp]_vars

(***************************************************************************)
(* The roster form: add, edit, remove, presets, clear                      *)
(***************************************************************************)
legacyPresetWorkers ==
  <<
   [name |-> "אריאל",
    availability |->
        (0 :> <<"06:00-10:00", "10:00-14:00", "14:00-18:00", "18:00-22:00", "22:00-02:00", "02:00-06:00">> @@
         3 :> <<"22:00-02:00", "02:00-06:00", "14:00-18:00", "18:00-22:00", "06:00-10:00", "10:00-14:00">> @@
         4 :> <<"22:00-02:00", "02:00-06:00", "14:00-18:00", "18:00-22:00", "06:00-10:00", "10:00-14:00">> @@
         5 :> <<"22:00-02:00", "02:00-06:00", "14:00-18:00", "18:00-22:00", "06:00-10:00", "10:00-14:00">> @@
         6 :> <<"22:00-02:00", "02:00-06:00", "14:00-18:00", "18:00-22:00", "06:00-10:00", "10:00-14:00">>)],
   [name |-> "בניטה",
    availability |->
        (0 :> <<"22:00-02:00", "02:00-06:00", "14:00-18:00", "18:00-22:00", "06:00-10:00", "10:00-14:00">> @@
         1 :> <<"06:00-10:00", "10:00-14:00", "14:00-18:00", "18:00-22:00", "22:00-02:00", "02:00-06:00">> @@
         2 :> <<"06:00-10:00", "10:00-14:00", "14:00-18:00", "18:00-22:00", "22:00-02:00", "02:00-06:00">> @@
         4 :> <<"06:00-10:00", "10:00-14:00", "14:00-18:00", "18:00-22:00", "22:00-02:00", "02:00-06:00">>)],
   [name |-> "איתמר",
    availability |->
        (0 :> <<"06:00-10:00", "10:00-14:00", "14:00-18:00", "18:00-22:00", "22:00-02:00", "02:00-06:00">> @@
         1 :> <<"06:00-10:00", "10:00-14:00", "14:00-18:00", "18:00-22:00", "22:00-02:00", "02:00-06:00">> @@
         2 :> <<"06:00-10:00", "10:00-14:00", "14:00-18:00", "18:00-22:00", "22:00-02:00", "02:00-06:00">> @@
         3 :> <<"06:00-10:00", "10:00-14:00", "14:00-18:00", "18:00-22:00", "22:00-02:00", "02:00-06:00">> @@
         4 :> <<"06:00-10:00", "10:00-14:00", "14:00-18:00", "18:00-22:00", "22:00-02:00", "02:00-06:00">> @@
         5 :> <<"06:00-10:00", "10:00-14:00", "14:00-18:00", "18:00-22:00", "22:00-02:00", "02:00-06:00">> @@
         6 :> <<"06:00-10:00", "10:00-14:00", "14:00-18:00", "18:00-22:00", "22:00-02:00", "02:00-06:00">>)],
   [name |-> "טל",
    availability |->
        (0 :> <<"06:00-10:00", "10:00-14:00", "14:00-18:00", "18:00-22:00", "22:00-02:00", "02:00-06:00">> @@
         1 :> <<"06:00-10:00", "10:00-14:00", "14:00-18:00", "18:00-22:00", "22:00-02:00", "02:00-06:00">> @@
         2 :> <<"06:00-10:00", "10:00-14:00", "14:00-18:00", "18:00-22:00", "22:00-02:00", "02:00-06:00">> @@
         3 :> <<"06:00-10:00", "10:00-14:00", "14:00-18:00", "18:00-22:00", "22:00-02:00", "02:00-06:00">> @@
         4 :> <<"06:00-10:00", "10:00-14:00", "14:00-18:00", "18:00-22:00", "22:00-02:00", "02:00-06:00">> @@
         5 :> <<"06:00-10:00", "10:00-14:00", "14:00-18:00", "18:00-22:00", "22:00-02:00", "02:00-06:00">> @@
         6 :> <<"06:00-10:00", "10:00-14:00", "14:00-18:00", "18:00-22:00", "22:00-02:00", "02:00-06:00">>)],
   [name |-> "אורי",
    availability |->
        (1 :> <<"06:00-10:00", "10:00-14:00", "14:00-18:00", "18:00-22:00", "22:00-02:00", "02:00-06:00">> @@
         2 :> <<"06:00-10:00", "10:00-14:00", "14:00-18:00", "18:00-22:00", "22:00-02:00", "02:00-06:00">> @@
         3 :> <<"06:00-10:00", "10:00-14:00", "14:00-18:00", "18:00-22:00", "22:00-02:00", "02:00-06:00">> @@
         4 :> <<"06:00-10:00", "10:00-14:00", "14:00-18:00", "18:00-22:00", "22:00-02:00", "02:00-06:00">> @@
         5 :> <<"06:00-10:00", "10:00-14:00", "14:00-18:00", "18:00-22:00", "22:00-02:00", "02:00-06:00">> @@
         6 :> <<"06:00-10:00", "10:00-14:00", "14:00-18:00", "18:00-22:00", "22:00-02:00", "02:00-06:00">>)],
   [name |-> "אורן",
    availability |->
        (0 :> <<"06:00-10:00", "10:00-14:00", "14:00-18:00", "18:00-22:00">> @@
         1 :> <<"06:00-10:00", "10:00-14:00", "14:00-18:00", "18:00-22:00">> @@
         2 :> <<"06:00-10:00", "10:00-14:00", "14:00-18:00", "18:00-22:00">> @@
         3 :> <<"06:00-10:00", "10:00-14:00", "14:00-18:00", "18:00-22:00">> @@
         4 :> <<"06:00-10:00", "10:00-14:00", "14:00-18:00", "18:00-22:00">> @@
         5 :> <<"06:00-10:00", "10:00-14:00", "14:00-18:00", "18:00-22:00">> @@
         6 :> <<"06:00-10:00", "10:00-14:00", "14:00-18:00", "18:00-22:00">>)],
   [name |-> "אלירן",
    availability |->
        (0 :> <<"06:00-10:00", "10:00-14:00", "14:00-18:00", "18:00-22:00", "22:00-02:00", "02:00-06:00">> @@
         1 :> <<"06:00-10:00", "10:00-14:00", "14:00-18:00", "18:00-22:00", "22:00-02:00", "02:00-06:00">> @@
         2 :> <<"06:00-10:00", "10:00-14:00", "14:00-18:00", "18:00-22:00", "22:00-02:00", "02:00-06:00">> @@
         3 :> <<"06:00-10:00", "10:00-14:00", "14:00-18:00", "18:00-22:00", "22:00-02:00", "02:00-06:00">> @@
         4 :> <<"06:00-10:00", "10:00-14:00", "14:00-18:00", "18:00-22:00", "22:00-02:00", "02:00-06:00">> @@
         5 :> <<"06:00-10:00", "10:00-14:00", "14:00-18:00", "18:00-22:00", "22:00-02:00", "02:00-06:00">> @@
         6 :> <<"06:00-10:00", "10:00-14:00", "14:00-18:00", "18:00-22:00", "22:00-02:00", "02:00-06:00">>)],
   [name |-> "אפי",
    availability |->
        (0 :> <<"06:00-10:00", "10:00-14:00", "14:00-18:00", "18:00-22:00", "22:00-02:00", "02:00-06:00">> @@
         2 :> <<"06:00-10:00", "10:00-14:00", "14:00-18:00", "18:00-22:00", "22:00-02:00", "02:00-06:00">> @@
         3 :> <<"06:00-10:00", "10:00-14:00", "14:00-18:00", "18:00-22:00", "22:00-02:00", "02:00-06:00">> @@
         4 :> <<"06:00-10:00", "10:00-14:00", "14:00-18:00", "18:00-22:00", "22:00-02:00", "02:00-06:00">> @@
         5 :> <<"06:00-10:00", "10:00-14:00", "14:00-18:00", "18:00-22:00", "22:00-02:00", "02:00-06:00">> @@
         6 :> <<"06:00-10:00", "10:00-14:00", "14:00-18:00", "18:00-22:00", "22:00-02:00", "02:00-06:00">>)],
   [name |-> "איציק דניאל",
    availability |->
        (0 :> <<"06:00-10:00", "10:00-14:00", "14:00-18:00", "18:00-22:00", "22:00-02:00", "02:00-06:00">> @@
         1 :> <<"06:00-10:00", "10:00-14:00", "14:00-18:00", "18:00-22:00", "22:00-02:00", "02:00-06:00">> @@
         2 :> <<"06:00-10:00", "10:00-14:00", "14:00-18:00", "18:00-22:00", "22:00-02:00", "02:00-06:00">> @@
         3 :> <<"06:00-10:00", "10:00-14:00", "14:00-18:00", "18:00-22:00", "22:00-02:00", "02:00-06:00">> @@
         4 :> <<"06:00-10:00", "10:00-14:00", "14:00-18:00", "18:00-22:00", "22:00-02:00", "02:00-06:00">> @@
         5 :> <<"06:00-10:00", "10:00-14:00", "14:00-18:00", "18:00-22:00", "22:00-02:00", "02:00-06:00">> @@
         6 :> <<"06:00-10:00", "10:00-14:00", "14:00-18:00", "18:00-22:00", "22:00-02:00", "02:00-06:00">>)],
   [name |-> "ליעוז",
    availability |->
        (0 :> <<"06:00-10:00", "10:00-14:00", "14:00-18:00", "18:00-22:00", "22:00-02:00", "02:00-06:00">> @@
         1 :> <<"06:00-10:00", "10:00-14:00", "14:00-18:00", "18:00-22:00", "22:00-02:00", "02:00-06:00">> @@
         2 :> <<"06:00-10:00", "10:00-14:00", "14:00-18:00", "18:00-22:00", "22:00-02:00", "02:00-06:00">> @@
         3 :> <<"06:00-10:00", "10:00-14:00", "14:00-18:00", "18:00-22:00", "22:00-02:00", "02:00-06:00">> @@
         4 :> <<"06:00-10:00", "10:00-14:00", "14:00-18:00", "18:00-22:00", "22:00-02:00", "02:00-06:00">> @@
         5 :> <<"06:00-10:00", "10:00-14:00", "14:00-18:00", "18:00-22:00", "22:00-02:00", "02:00-06:00">> @@
         6 :> <<"06:00-10:00", "10:00-14:00", "14:00-18:00", "18:00-22:00", "22:00-02:00", "02:00-06:00">>)],
   [name |-> "שמוליק",
    availability |->
        (0 :> <<"06:00-10:00", "10:00-14:00", "14:00-18:00", "18:00-22:00", "22:00-02:00", "02:00-06:00">> @@
         1 :> <<"06:00-10:00", "10:00-14:00", "14:00-18:00", "18:00-22:00", "22:00-02:00", "02:00-06:00">> @@
         2 :> <<"06:00-10:00", "10:00-14:00", "14:00-18:00", "18:00-22:00", "22:00-02:00", "02:00-06:00">> @@
         3 :> <<"06:00-10:00", "10:00-14:00", "14:00-18:00", "18:00-22:00", "22:00-02:00", "02:00-06:00">> @@
         4 :> <<"06:00-10:00", "10:00-14:00", "14:00-18:00", "18:00-22:00", "22:00-02:00", "02:00-06:00">> @@
         5 :> <<"06:00-10:00", "10:00-14:00", "14:00-18:00", "18:00-22:00", "22:00-02:00", "02:00-06:00">> @@
         6 :> <<"06:00-10:00", "10:00-14:00", "14:00-18:00", "18:00-22:00", "22:00-02:00", "02:00-06:00">>)],
   [name |-> "אושרי",
    availability |->
        (0 :> <<"06:00-10:00", "10:00-14:00", "14:00-18:00", "18:00-22:00", "22:00-02:00", "02:00-06:00">> @@
         1 :> <<"06:00-10:00", "10:00-14:00", "14:00-18:00", "18:00-22:00", "22:00-02:00", "02:00-06:00">> @@
         2 :> <<"06:00-10:00", "10:00-14:00", "14:00-18:00", "18:00-22:00", "22:00-02:00", "02:00-06:00">> @@
         3 :> <<"06:00-10:00", "10:00-14:00", "14:00-18:00", "18:00-22:00", "22:00-02:00", "02:00-06:00">> @@
         4 :> <<"06:00-10:00", "10:00-14:00", "14:00-18:00", "18:00-22:00", "22:00-02:00", "02:00-06:00">> @@
         5 :> <<"06:00-10:00", "10:00-14:00", "14:00-18:00", "18:00-22:00", "22:00-02:00", "02:00-06:00">> @@
         6 :> <<"06:00-10:00", "10:00-14:00", "14:00-18:00", "18:00-22:00", "22:00-02:00", "02:00-06:00">>)],
   [name |-> "עידו",
    availability |->
        (0 :> <<"06:00-10:00", "10:00-14:00", "14:00-18:00", "18:00-22:00", "22:00-02:00", "02:00-06:00">> @@
         1 :> <<"14:00-18:00", "18:00-22:00", "22:00-02:00", "02:00-06:00", "06:00-10:00", "10:00-14:00">> @@
         2 :> <<"06:00-10:00", "10:00-14:00", "14:00-18:00", "18:00-22:00", "22:00-02:00", "02:00-06:00">> @@
         3 :> <<"06:00-10:00", "10:00-14:00", "14:00-18:00", "18:00-22:00", "22:00-02:00", "02:00-06:00">> @@
         4 :> <<"06:00-10:00", "10:00-14:00", "14:00-18:00", "18:00-22:00", "22:00-02:00", "02:00-06:00">> @@
         6 :> <<"22:00-02:00", "02:00-06:00">>)],
   [name |-> "גיל",
    availability |->
        (0 :> <<"06:00-10:00", "10:00-14:00", "14:00-18:00", "18:00-22:00", "22:00-02:00", "02:00-06:00">> @@
         1 :> <<"06:00-10:00", "10:00-14:00", "14:00-18:00", "18:00-22:00", "22:00-02:00", "02:00-06:00">> @@
         2 :> <<"06:00-10:00", "10:00-14:00", "14:00-18:00", "18:00-22:00", "22:00-02:00", "02:00-06:00">> @@
         3 :> <<"06:00-10:00", "10:00-14:00", "22:00-02:00", "02:00-06:00">> @@
         4 :> <<"06:00-10:00", "10:00-14:00", "14:00-18:00", "18:00-22:00", "22:00-02:00", "02:00-06:00">>)]
  >>

presetWorkers ==
  [i \in 1..Len(legacyPresetWorkers) |->
     [name |-> legacyPresetWorkers[i].name,
      availability |-> normalizeAvailabilityMap(legacyPresetWorkers[i].availability)]]

\* text of a name field: a body without outer blanks, after leading blanks
NameTexts == {[lead |-> l, body |-> b] : l \in 0..1, b \in {"", "a", "b"}}

\* String.prototype.trim
Trim(text) == text.body

\* availability ticked in the add and edit forms
\* a day list after toggling its first slot off and on again
Reordered == [d \in {0} |-> <<"12:00-18:00", "06:00-12:00">>]

FormAvailChoices == {Full, EarlyWeek, NoAvail, Reordered}

\* Date.now(): later than the time of every id given so far
FreshId(members) ==
  IF Len(members) = 0 THEN 1 ELSE 1 + SetMax({members[i].id : i \in 1..Len(members)})

addTeamMember ==
  /\ pc = "idle"
  /\ Len(teamMembers) < MaxPeople
  /\ FreshId(teamMembers) <= MaxTime
  /\ \E newMemberName \in NameTexts, newMemberAvailableShifts \in FormAvailChoices :
        /\ Trim(newMemberName) # ""
        /\ teamMembers' =
             Append(teamMembers,
                    normalizeTeamMember([id |-> FreshId(teamMembers),
                                         name |-> Trim(newMemberName),
                                         availableShifts |-> newMemberAvailableShifts]))
  /\ UNCHANGED <<dayShiftWorkers, nightShiftWorkers, maxShiftsPerEmployee, shifts, pc, locals>>
  /\ UNCHANGED editing

removeTeamMember ==
  /\ pc = "idle"
  /\ Len(teamMembers) <= MaxPeople
  /\ \E i \in 1..Len(teamMembers) :
        teamMembers' = SelectSeq(teamMembers, LAMBDA member : member.id # teamMembers[i].id)
  /\ UNCHANGED <<dayShiftWorkers, nightShiftWorkers, maxShiftsPerEmployee, shifts, pc, locals>>
  /\ UNCHANGED editing

\* startEditMember on a listed member, then saveEditMember
saveEditMember ==
  /\ pc = "idle"
  /\ Len(teamMembers) <= MaxPeople
  /\ \E e \in 1..Len(teamMembers), editMemberName \in NameTexts,
        editMemberAvailableShifts \in FormAvailChoices :
        LET editingMember == teamMembers[e].id
        IN  /\ Trim(editMemberName) # ""
            /\ teamMembers' =
                 [i \in 1..Len(teamMembers) |->
                    IF teamMembers[i].id = editingMember
                      THEN normalizeTeamMember(
                             [teamMembers[i] EXCEPT !.name = Trim(editMemberName),
                                                    !.availableShifts = editMemberAvailableShifts])
                      ELSE teamMembers[i]]
  /\ UNCHANGED <<dayShiftWorkers, nightShiftWorkers, maxShiftsPerEmployee, shifts, pc, locals>>
  /\ UNCHANGED editing

addPresetWorkers ==
  /\ pc = "idle"
  /\ Len(teamMembers) <= MaxPeople
  /\ LET newMembers ==
           [index \in 1..Len(presetWorkers) |->
              [id |-> FreshId(teamMembers) + index - 1,
               name |-> presetWorkers[index].name,
               availableShifts |-> presetWorkers[index].availability]]
     IN  teamMembers' = teamMembers \o NormalizeTeam(newMembers)
  /\ UNCHANGED <<dayShiftWorkers, nightShiftWorkers, maxShiftsPerEmployee, shifts, pc, locals>>
  /\ UNCHANGED editing

\* the clear-team button, confirmed
ClearTeam ==
  /\ pc = "idle"
  /\ Len(teamMembers) > 0
  /\ teamMembers' = <<>>
  /\ UNCHANGED <<dayShiftWorkers, nightShiftWorkers, maxShiftsPerEmployee, shifts, pc, locals>>
  /\ UNCHANGED editing

NextRoster ==
  \/ MountEffect
  \/ LoadSharedBlob
  \/ FetchFailed
  \/ addTeamMember
  \/ removeTeamMember
  \/ saveEditMember
  \/ addPresetWorkers
  \/ ClearTeam

SpecRoster == InitApp /\ [][NextRoster]_vars

(***************************************************************************)
(* Editing a cell by hand: startEdit, the text input, saveEdit with its    *)
(* confirmation dialog, cancelEdit                                         *)
(***************************************************************************)
\* a text of the edit input, as its comma-separated fields
Field(lead, body) == [lead |-> lead, body |-> body]

\* members.join(', ')
JoinNames(members) ==
  [i \in 1..Len(members) |-> Field(IF i = 1 THEN 0 ELSE 1, members[i])]

\* editValue.split(',').map(name => name.trim()).filter(name => name.length > 0)
MemberNames(text) ==
  SelectSeq([i \in 1..Len(text) |-> Trim(text[i])], LAMBDA name : name # "")

\* the names that exist in the roster
ValidNames(members, text) ==
  SelectSeq(MemberNames(text),
            LAMBDA name : \E i \in 1..Len(members) : members[i].name = name)

\* teamMembers.find(member => member.name === workerName)
FindWorker(members, workerName) ==
  members[SetMin({i \in 1..Len(members) : members[i].name = workerName})]

\* the valid names whose worker does not list the cell
UnavailableWorkers(members, text, day, timeSlot) ==
  SelectSeq(ValidNames(members, text),
            LAMBDA workerName :
              ~Includes(DayAvailable(FindWorker(members, workerName), day), timeSlot))

\* mutant: the edited cell is always appended
UpdateShiftsAppend(prevShifts, day, timeSlot, validNames) ==
  Append(prevShifts, [day |-> day, timeSlot |-> timeSlot, members |-> validNames])

\* the updater passed to setShifts: the entry of the cell is replaced, or a
\* new entry is appended
UpdateShifts(prevShifts, day, timeSlot, validNames) ==
  LET found == {i \in 1..Len(prevShifts) :
                  prevShifts[i].day = day /\ prevShifts[i].timeSlot = timeSlot}
  IN  IF found # {}
        THEN [prevShifts EXCEPT ![SetMin(found)].members = validNames]
        ELSE Append(prevShifts, [day |-> day, timeSlot |-> timeSlot,
                                 members |-> validNames])

\* cells whose edit button is pressed
EditCells ==
  {[day |-> 0, timeSlot |-> "18:00-00:00"], [day |-> 0, timeSlot |-> "06:00-12:00"]}

\* texts typed into the edit input
EditTexts ==
  {<<Field(0, "b")>>,
   <<Field(0, "z"), Field(1, "a")>>,
   <<Field(1, "a"), Field(0, ""), Field(1, "b")>>}

\* the page takes events: after the mount effect, the fetch pending or not
Interactive == pc \in {"idle", "fetch"}

\* the confirmation dialog is open (confirm blocks the page)
Confirming == pc \in {"confirm", "fetch-confirm"}

InitEdit ==
  /\ teamMembers = <<>>
  /\ dayShiftWorkers = 1
  /\ nightShiftWorkers = 1
  /\ maxShiftsPerEmployee = DefaultCap
  /\ shifts = <<>>
  /\ pc = "fetch"
  /\ workerAvailability = <<>>
  /\ workerShiftCount = <<>>
  /\ allShifts = <<>>
  /\ newShifts = <<>>
  /\ iteration = 0
  /\ shiftIndex = 1
  /\ invocation = 0
  /\ editingShift = null
  /\ editValue = <<>>

\* generateShifts as one call: its locals are gone when it returns
generateShifts ==
  /\ Interactive
  /\ shifts' = GenerateResult(teamMembers, dayShiftWorkers, nightShiftWorkers,
                              maxShiftsPerEmployee).newShifts
  /\ UNCHANGED <<inputs, pc, locals, editing>>

startEdit ==
  /\ Interactive
  /\ \E cell \in EditCells :
        LET found == {i \in 1..Len(shifts) :
                        shifts[i].day = cell.day /\ shifts[i].timeSlot = cell.timeSlot}
        IN  /\ editingShift' = cell
            /\ editValue' = IF found # {} THEN JoinNames(shifts[SetMin(found)].members)
                                          ELSE <<>>
  /\ UNCHANGED <<inputs, shifts, pc, locals>>

handleEditInputChange ==
  /\ Interactive
  /\ editingShift # null
  /\ \E value \in EditTexts : editValue' = value
  /\ UNCHANGED <<inputs, shifts, pc, locals, editingShift>>

\* mutant: every typed name is stored
StoreEditUnvalidated ==
  /\ shifts' = UpdateShifts(shifts, editingShift.day, editingShift.timeSlot,
                            MemberNames(editValue))
  /\ editingShift' = null
  /\ editValue' = <<>>

\* the end of saveEdit: setShifts, setEditingShift(null), setEditValue('')
StoreEdit ==
  /\ shifts' = UpdateShifts(shifts, editingShift.day, editingShift.timeSlot,
                            ValidNames(teamMembers, editValue))
  /\ editingShift' = null
  /\ editValue' = <<>>

\* saveEdit up to the confirmation: with no unavailable worker it stores at
\* once, otherwise it opens the dialog
saveEdit ==
  /\ Interactive
  /\ editingShift # null
  /\ IF Len(UnavailableWorkers(teamMembers, editValue, editingShift.day,
                               editingShift.timeSlot)) > 0
       THEN /\ pc' = IF pc = "idle" THEN "confirm" ELSE "fetch-confirm"
            /\ UNCHANGED <<shifts, editing>>
       ELSE /\ StoreEdit
            /\ UNCHANGED pc
  /\ UNCHANGED <<inputs, locals>>

\* confirm returned true
ConfirmAccepted ==
  /\ Confirming
  /\ StoreEdit
  /\ pc' = IF pc = "confirm" THEN "idle" ELSE "fetch"
  /\ UNCHANGED <<inputs, locals>>

\* confirm returned false: saveEdit returns
ConfirmDeclined ==
  /\ Confirming
  /\ pc' = IF pc = "confirm" THEN "idle" ELSE "fetch"
  /\ UNCHANGED <<inputs, shifts, locals, editing>>

cancelEdit ==
  /\ Interactive
  /\ editingShift # null
  /\ editingShift' = null
  /\ editValue' = <<>>
  /\ UNCHANGED <<inputs, shifts, pc, locals>>

NextEdit ==
  \/ LoadSharedBlob
  \/ FetchFailed
  \/ generateShifts
  \/ startEdit
  \/ handleEditInputChange
  \/ saveEdit
  \/ ConfirmAccepted
  \/ ConfirmDeclined
  \/ cancelEdit

SpecEdit == InitEdit /\ [][NextEdit]_vars

(***************************************************************************)
(* The earlier variant of the component: shift categories, a daily limit   *)
(* and random assignment.  Its state lives in the same variables; the      *)
(* settings and the counter table carry their earlier names below.         *)
(***************************************************************************)
LEGACY_TIME_SLOTS ==
  <<"06:00-10:00", "10:00-14:00", "14:00-18:00", "18:00-22:00", "22:00-02:00", "02:00-06:00">>

\* Object.entries order: morning, day, night
SHIFT_CATEGORIES ==
  <<[category |-> "morning", slots |-> <<"06:00-10:00", "10:00-14:00">>],
    [category |-> "day", slots |-> <<"14:00-18:00", "18:00-22:00">>],
    [category |-> "night", slots |-> <<"22:00-02:00", "02:00-06:00">>]>>

getShiftCategory(timeSlot) ==
  LET hits == {i \in 1..Len(SHIFT_CATEGORIES) : Includes(SHIFT_CATEGORIES[i].slots, timeSlot)}
  IN  IF hits # {} THEN SHIFT_CATEGORIES[SetMin(hits)].category ELSE "day"

LegacyIsDayShift(timeSlot) ==
  Includes(<<"06:00-10:00", "10:00-14:00", "14:00-18:00", "18:00-22:00">>, timeSlot)

minDayWorkers == dayShiftWorkers
minNightWorkers == nightShiftWorkers
memberDayShifts == workerShiftCount

\* the loop over the days is followed through its first MaxLegacyDays days
LegacyNumCells == MaxLegacyDays * Len(LEGACY_TIME_SLOTS)
LegacyCellDay(k) == (k - 1) \div Len(LEGACY_TIME_SLOTS)
LegacyCellSlot(k) == LEGACY_TIME_SLOTS[((k - 1) % Len(LEGACY_TIME_SLOTS)) + 1]

UnavailableChoices == {<<>>, <<"morning">>, <<"night">>, <<"morning", "day">>}

\* rosters of one or two members: the names are pairwise distinct, or the
\* second member carries the name of the first
LegacyRosterOfSize(n) ==
  {[i \in 1..n |-> [id |-> i,
                    name |-> IF dup /\ n >= 2 /\ i = n THEN NameList[1] ELSE NameList[i],
                    unavailableShifts |-> un[i]]] :
     un \in [1..n -> UnavailableChoices], dup \in BOOLEAN}

LegacyRosters == UNION {LegacyRosterOfSize(n) : n \in 1..2}

InitLegacy ==
  /\ teamMembers \in LegacyRosters
  /\ minDayWorkers \in HeadcountChoices
  /\ minNightWorkers \in HeadcountChoices
  /\ maxShiftsPerEmployee = DefaultCap
  /\ shifts = <<>>
  /\ pc = "idle"
  /\ workerAvailability = <<>>
  /\ memberDayShifts = <<>>
  /\ allShifts = <<>>
  /\ newShifts = <<>>
  /\ iteration = 0
  /\ shiftIndex = 1
  /\ invocation = 0
  /\ editingShift = null
  /\ editValue = <<>>

\* the earlier generateShifts up to the loops: empty newShifts, zeroed table
LegacyGenerateStart ==
  /\ pc = "idle"
  /\ newShifts' = <<>>
  /\ memberDayShifts' = [n \in RosterNames(teamMembers) |-> [day \in AllDays |-> 0]]
  /\ shiftIndex' = 1
  /\ pc' = "loop"
  /\ invocation' = invocation + 1
  /\ UNCHANGED <<inputs, shifts, workerAvailability, allShifts, iteration>>
  /\ UNCHANGED editing

\* mutant: the daily limit is not tested
availableMembersWithoutLimit(members, table, day, timeSlot) ==
  SelectSeq(members,
            LAMBDA member : ~Includes(member.unavailableShifts, getShiftCategory(timeSlot)))

\* teamMembers.filter(not unavailable for the category, fewer than 2 shifts that day)
availableMembers(members, table, day, timeSlot) ==
  SelectSeq(members,
            LAMBDA member : /\ ~Includes(member.unavailableShifts, getShiftCategory(timeSlot))
                            /\ table[member.name][day] < 2)

\* the orders a sort with a random comparator can leave the list in
Shuffles(seq) ==
  {[i \in 1..Len(seq) |-> seq[p[i]]] :
     p \in {q \in [1..Len(seq) -> 1..Len(seq)] :
              \A i, j \in 1..Len(seq) : i # j => q[i] # q[j]}}

\* assignedMembers.forEach(member => memberDayShifts[member.name][day]++)
TableAfter(table, assignedMembers, day) ==
  [n \in DOMAIN table |->
     [d \in DOMAIN table[n] |->
        IF d = day
          THEN table[n][d] + Cardinality({i \in 1..Len(assignedMembers) :
                                            assignedMembers[i].name = n})
          ELSE table[n][d]]]

\* one iteration of the inner loop of the earlier generateShifts
LegacyVisitCell ==
  /\ pc = "loop"
  /\ shiftIndex <= LegacyNumCells
  /\ LET day == LegacyCellDay(shiftIndex)
         timeSlot == LegacyCellSlot(shiftIndex)
         minWorkers == IF LegacyIsDayShift(timeSlot) THEN minDayWorkers ELSE minNightWorkers
     IN  \E shuffled \in Shuffles(availableMembers(teamMembers, memberDayShifts, day, timeSlot)),
            random \in 1..3 :
            LET maxWorkers == Min(Max(minWorkers, random), Len(shuffled))
                assignedCount == Max(minWorkers, Min(maxWorkers, Len(shuffled)))
                assignedMembers == SubSeq(shuffled, 1, Min(assignedCount, Len(shuffled)))
            IN  IF Len(assignedMembers) > 0
                  THEN /\ memberDayShifts' = TableAfter(memberDayShifts, assignedMembers, day)
                       /\ newShifts' =
                            Append(newShifts,
                                   [day |-> day, timeSlot |-> timeSlot,
                                    members |-> [i \in 1..Len(assignedMembers) |->
                                                   assignedMembers[i].name]])
                  ELSE UNCHANGED <<memberDayShifts, newShifts>>
  /\ shiftIndex' = shiftIndex + 1
  /\ UNCHANGED <<inputs, shifts, pc, workerAvailability, allShifts, iteration, invocation>>
  /\ UNCHANGED editing

\* setShifts(newShifts) after the loops
LegacyFinish ==
  /\ pc = "loop"
  /\ shiftIndex > LegacyNumCells
  /\ shifts' = newShifts
  /\ pc' = "done"
  /\ UNCHANGED <<inputs, workerAvailability, memberDayShifts, allShifts, newShifts,
                 iteration, shiftIndex, invocation>>
  /\ UNCHANGED editing

NextLegacy == LegacyGenerateStart \/ LegacyVisitCell \/ LegacyFinish

SpecLegacy == InitLegacy /\ [][NextLegacy]_vars

(***************************************************************************)
(* Properties                                                              *)
(***************************************************************************)
NamesDistinct ==
  \A i, j \in 1..Len(teamMembers) :
     i # j => teamMembers[i].name # teamMembers[j].name

\* some roster member carrying the name lists the slot for the day
NameAvailable(name, day, timeSlot) ==
  \E i \in 1..Len(teamMembers) :
     /\ teamMembers[i].name = name
     /\ day \in DOMAIN teamMembers[i].availableShifts
     /\ \E j \in 1..Len(teamMembers[i].availableShifts[day]) :
           teamMembers[i].availableShifts[day][j] = timeSlot

\* number of roster members that list the slot for the day
EligibleCount(day, timeSlot) ==
  Cardinality({i \in 1..Len(teamMembers) :
                 /\ day \in DOMAIN teamMembers[i].availableShifts
                 /\ \E j \in 1..Len(teamMembers[i].availableShifts[day]) :
                       teamMembers[i].availableShifts[day][j] = timeSlot})

Required(timeSlot) ==
  IF timeSlot \in {"06:00-12:00", "12:00-18:00"} THEN dayShiftWorkers ELSE nightShiftWorkers

\* the assignment under construction and the stored one
Assignments == {newShifts, shifts}

HasEntry(shiftList, day, timeSlot) ==
  \E i \in 1..Len(shiftList) : shiftList[i].day = day /\ shiftList[i].timeSlot = timeSlot

\* C1 - Availability respected: every name in the member list of every entry
\* (of the assignment being built and of the stored one) belongs to a roster
\* member whose availableShifts[day] contains the entry's timeSlot; a missing
\* day key counts as unavailable.
AvailabilityRespected ==
  \A L \in Assignments : \A i \in 1..Len(L) : \A j \in 1..Len(L[i].members) :
     NameAvailable(L[i].members[j], L[i].day, L[i].timeSlot)

\* a stored entry that is short of its headcount although a roster member,
\* unavailable for the cell, has no shift at all
AvailabilityWitness ==
  /\ pc = "done"
  /\ \E i \in 1..Len(shifts) : \E m \in 1..Len(teamMembers) :
        /\ Len(shifts[i].members) >= 1
        /\ Len(shifts[i].members) < Required(shifts[i].timeSlot)
        /\ ~NameAvailable(teamMembers[m].name, shifts[i].day, shifts[i].timeSlot)
        /\ SummaryCount(shifts, teamMembers[m].name) = 0

\* C2 - Cap respected: with pairwise distinct names, after every cell visit of
\* every pass each workerShiftCount is at most maxShiftsPerEmployee, and each
\* name occurs in at most maxShiftsPerEmployee cells of the assignment.
CapRespected ==
  NamesDistinct =>
    /\ \A n \in DOMAIN workerShiftCount : workerShiftCount[n] <= maxShiftsPerEmployee
    /\ \A L \in Assignments : \A n \in RosterNames(teamMembers) :
          SummaryCount(L, n) <= maxShiftsPerEmployee

\* a person stopped by the cap: at the cap, and a cell they are available for
\* is left without an entry
CapWitness ==
  /\ pc = "done"
  /\ NamesDistinct
  /\ \E n \in RosterNames(teamMembers) :
        /\ SummaryCount(shifts, n) = maxShiftsPerEmployee
        /\ \E k \in 1..Len(allShifts) :
              /\ Includes(allShifts[k].availableWorkers, n)
              /\ ~HasEntry(shifts, allShifts[k].day, allShifts[k].timeSlot)

\* C3 - Headcount bound: every entry has at most min(required headcount of
\* the cell's period, number of roster members eligible for the cell) members.
HeadcountBound ==
  \A L \in Assignments : \A i \in 1..Len(L) :
     /\ Len(L[i].members) <= Required(L[i].timeSlot)
     /\ Len(L[i].members) <= EligibleCount(L[i].day, L[i].timeSlot)

\* both bounds bind in one stored assignment whose day and night settings differ
HeadcountWitness ==
  /\ pc = "done"
  /\ dayShiftWorkers # nightShiftWorkers
  /\ \E i \in 1..Len(shifts) :
        /\ Len(shifts[i].members) = Required(shifts[i].timeSlot)
        /\ Len(shifts[i].members) < EligibleCount(shifts[i].day, shifts[i].timeSlot)
  /\ \E i \in 1..Len(shifts) :
        /\ Len(shifts[i].members) = EligibleCount(shifts[i].day, shifts[i].timeSlot)
        /\ Len(shifts[i].members) < Required(shifts[i].timeSlot)

\* C4 - No duplicate assignment within a cell: with pairwise distinct names,
\* no name occurs twice in the member list of an entry.
NoDuplicateInCell ==
  NamesDistinct =>
    \A L \in Assignments : \A i \in 1..Len(L) :
       \A j, k \in 1..Len(L[i].members) :
          j # k => L[i].members[j] # L[i].members[k]

\* a stored entry with two members, names distinct
NoDuplicateWitness ==
  /\ pc = "done"
  /\ NamesDistinct
  /\ \E i \in 1..Len(shifts) : Len(shifts[i].members) >= 2

\* C5 - Exact fill: a visit of a cell assigns min(wanted, number of eligible
\* people under the cap) people, wanted = min(required headcount, number of
\* eligible people); the entry is appended for that cell, every selected
\* person was eligible and under the cap, each selection adds exactly 1 to the
\* load of the selected name and no other load changes.
ExactFill ==
  [][VisitCell =>
      LET shift == allShifts[shiftIndex]
          eligible == EligibleCount(shift.day, shift.timeSlot)
          wanted == IF Required(shift.timeSlot) <= eligible
                      THEN Required(shift.timeSlot) ELSE eligible
          underCap == {i \in 1..Len(shift.availableWorkers) :
                         workerShiftCount[shift.availableWorkers[i]] < maxShiftsPerEmployee}
          k == IF wanted <= Cardinality(underCap) THEN wanted ELSE Cardinality(underCap)
      IN  /\ k = 0 => newShifts' = newShifts /\ workerShiftCount' = workerShiftCount
          /\ k > 0 =>
                /\ Len(newShifts') = Len(newShifts) + 1
                /\ SubSeq(newShifts', 1, Len(newShifts)) = newShifts
                /\ LET e == newShifts'[Len(newShifts')]
                   IN  /\ e.day = shift.day
                       /\ e.timeSlot = shift.timeSlot
                       /\ Len(e.members) = k
                       /\ \A j \in 1..Len(e.members) :
                             \E i \in underCap : shift.availableWorkers[i] = e.members[j]
                       /\ \A n \in DOMAIN workerShiftCount :
                             workerShiftCount'[n] = workerShiftCount[n]
                               + Cardinality({j \in 1..Len(e.members) : e.members[j] = n})
                       /\ NamesDistinct =>
                             \A n \in DOMAIN workerShiftCount :
                                workerShiftCount'[n] - workerShiftCount[n] \in {0, 1}
  ]_vars

\* the visit just made filled its cell, yet with fewer people than wanted,
\* because the cap removed candidates
ExactFillWitness ==
  /\ pc = "pass"
  /\ shiftIndex > 1
  /\ newShifts # <<>>
  /\ LET shift == allShifts[shiftIndex - 1]
         e == newShifts[Len(newShifts)]
     IN  /\ e.day = shift.day
         /\ e.timeSlot = shift.timeSlot
         /\ Len(e.members) >= 1
         /\ Len(e.members) < Required(e.timeSlot)
         /\ Len(e.members) < EligibleCount(e.day, e.timeSlot)

\* C6 - Infeasibility is silent: for every roster (the empty one and people
\* without availability included) and settings >= 1 the call never stops
\* short of its end (before the end it is at a cell of the pass or at the
\* end of one of the 5 passes, and every lookup of a candidate's load and
\* availability is defined); every
\* recorded entry holds at least one person, and each person in it had fewer
\* than maxShiftsPerEmployee assignments in the entries recorded before it;
\* a candidate cell visited without getting an entry has every eligible
\* person at the cap, during the pass and in the stored Assignment.
InfeasibilitySilent ==
  /\ pc \in {"idle", "pass", "done"}
  /\ pc = "pass" =>
        /\ iteration \in 0..(maxIterations - 1)
        /\ shiftIndex \in 1..(Len(allShifts) + 1)
        /\ \A k \in 1..Len(allShifts) : \A j \in 1..Len(allShifts[k].availableWorkers) :
              /\ allShifts[k].availableWorkers[j] \in DOMAIN workerShiftCount
              /\ allShifts[k].availableWorkers[j] \in DOMAIN workerAvailability
  /\ \A L \in Assignments : \A i \in 1..Len(L) :
        /\ Len(L[i].members) >= 1
        /\ \A j \in 1..Len(L[i].members) :
              SummaryCount(SubSeq(L, 1, i - 1), L[i].members[j]) < maxShiftsPerEmployee
  /\ pc \in {"pass", "done"} =>
        \A k \in 1..Len(allShifts) :
           (k < shiftIndex /\ ~HasEntry(newShifts, allShifts[k].day, allShifts[k].timeSlot)) =>
              \A j \in 1..Len(allShifts[k].availableWorkers) :
                 workerShiftCount[allShifts[k].availableWorkers[j]] >= maxShiftsPerEmployee
  /\ pc = "done" => shifts = newShifts

\* the call has ended on a roster holding a person without availability, and
\* a candidate cell is left without an entry
InfeasibilityWitness ==
  /\ pc = "done"
  /\ \E m \in 1..Len(teamMembers) : DOMAIN teamMembers[m].availableShifts = {}
  /\ \E k \in 1..Len(allShifts) :
        ~HasEntry(shifts, allShifts[k].day, allShifts[k].timeSlot)

\* C7 - Monotonic cap tightening: when generateShifts has ended with cap c2,
\* then for every smaller cap c1, the same roster and the same headcounts,
\* each name's total in the run with cap c1 is at most its total in this run.
CapMonotone ==
  pc = "done" =>
    \A c1 \in CapChoices :
       c1 < maxShiftsPerEmployee =>
         LET lower == GenerateResult(teamMembers, dayShiftWorkers, nightShiftWorkers, c1)
         IN  \A n \in RosterNames(teamMembers) :
                SummaryCount(lower.newShifts, n) <= SummaryCount(shifts, n)

\* a run of two or more people in which a smaller cap strictly lowers the
\* total of one person and leaves the total of another unchanged
CapMonotoneWitness ==
  /\ pc = "done"
  /\ Len(teamMembers) >= 2
  /\ \E c1 \in CapChoices :
        /\ c1 < maxShiftsPerEmployee
        /\ LET lower == GenerateResult(teamMembers, dayShiftWorkers, nightShiftWorkers, c1)
           IN  /\ \E n \in RosterNames(teamMembers) :
                     SummaryCount(lower.newShifts, n) < SummaryCount(shifts, n)
               /\ \E n \in RosterNames(teamMembers) :
                     /\ SummaryCount(shifts, n) > 0
                     /\ SummaryCount(lower.newShifts, n) = SummaryCount(shifts, n)

EntryMembers(shiftList, day, timeSlot) ==
  {shiftList[i].members : i \in {j \in 1..Len(shiftList) :
                                  shiftList[j].day = day /\ shiftList[j].timeSlot = timeSlot}}

\* one person available in all 7 x 4 cells, headcounts 1 and 1, cap 10
ScenarioA ==
  /\ pc = "done"
  /\ teamMembers = <<[id |-> 1, name |-> "a", availableShifts |-> Full]>>
  /\ dayShiftWorkers = 1
  /\ nightShiftWorkers = 1
  /\ maxShiftsPerEmployee = 10

\* C9 as stated - Scenario A: the person is assigned to all 28 cells and
\* their total is 28.
ScenarioAAllCells ==
  ScenarioA =>
    /\ \A k \in 1..NumCells : EntryMembers(shifts, CellDay(k), CellSlot(k)) = {<<"a">>}
    /\ SummaryCount(shifts, "a") = 28

\* C9 amended - Scenario A: the person is assigned to the first 10 cells in
\* visiting order (days 0 and 1, and the first two slots of day 2), their
\* total is 10 (the cap), and the other 18 cells have no entry.
ScenarioACapped ==
  ScenarioA =>
    /\ Len(shifts) = 10
    /\ SummaryCount(shifts, "a") = 10
    /\ \A k \in 1..NumCells :
          IF k <= 10
            THEN /\ shifts[k].day = CellDay(k)
                 /\ shifts[k].timeSlot = CellSlot(k)
                 /\ shifts[k].members = <<"a">>
            ELSE EntryMembers(shifts, CellDay(k), CellSlot(k)) = {}

\* Scenario A has run to its end
ScenarioAWitness == ScenarioA /\ shifts # <<>>

\* person a available only in the day-period slots, person b only in the
\* night-period slots, all days, headcounts 1 and 1, cap 10
ScenarioB ==
  /\ pc = "done"
  /\ teamMembers = <<[id |-> 1, name |-> "a", availableShifts |-> DayOnly],
                     [id |-> 2, name |-> "b", availableShifts |-> NightOnly]>>
  /\ dayShiftWorkers = 1
  /\ nightShiftWorkers = 1
  /\ maxShiftsPerEmployee = 10

DayPeriod == {"06:00-12:00", "12:00-18:00"}

\* C10 as stated - Scenario B: every day-period cell is assigned to a only
\* and every night-period cell to b only.
ScenarioBAllCells ==
  ScenarioB =>
    \A k \in 1..NumCells :
       EntryMembers(shifts, CellDay(k), CellSlot(k)) =
         IF CellSlot(k) \in DayPeriod THEN {<<"a">>} ELSE {<<"b">>}

\* C10 amended - Scenario B: the day-period cells of days 0 to 4 are assigned
\* to a only and the night-period cells of days 0 to 4 to b only (10 cells
\* each, the cap), the cells of days 5 and 6 have no entry, and neither
\* person appears in a cell of the other period.
ScenarioBCapped ==
  ScenarioB =>
    /\ SummaryCount(shifts, "a") = 10
    /\ SummaryCount(shifts, "b") = 10
    /\ \A k \in 1..NumCells :
          EntryMembers(shifts, CellDay(k), CellSlot(k)) =
            IF CellDay(k) > 4 THEN {}
            ELSE IF CellSlot(k) \in DayPeriod THEN {<<"a">>} ELSE {<<"b">>}
    /\ \A i \in 1..Len(shifts) : \A j \in 1..Len(shifts[i].members) :
          shifts[i].members[j] = (IF shifts[i].timeSlot \in DayPeriod THEN "a" ELSE "b")

\* Scenario B has run to its end
ScenarioBWitness == ScenarioB /\ shifts # <<>>

\* one fully available person, headcounts 1 and 1, cap 3
ScenarioC ==
  /\ pc = "done"
  /\ teamMembers = <<[id |-> 1, name |-> "a", availableShifts |-> Full]>>
  /\ dayShiftWorkers = 1
  /\ nightShiftWorkers = 1
  /\ maxShiftsPerEmployee = 3

\* the cells of the week in which the stored assignment places the name
CellsOf(name) ==
  {k \in 1..NumCells :
     \E e \in EntryMembers(shifts, CellDay(k), CellSlot(k)) : Includes(e, name)}

\* the cells of the week in which the stored assignment places nobody
UnfilledCells ==
  {k \in 1..NumCells :
     \A e \in EntryMembers(shifts, CellDay(k), CellSlot(k)) : Len(e) = 0}

\* C11 - Scenario C: the person is assigned to exactly 3 cells and the other
\* 25 cells of the week have no members.
ScenarioCThreeCells ==
  ScenarioC =>
    /\ Cardinality(CellsOf("a")) = 3
    /\ SummaryCount(shifts, "a") = 3
    /\ Cardinality(UnfilledCells) = 25
    /\ UnfilledCells = (1..NumCells) \ CellsOf("a")

\* Scenario C has run to its end and the person holds shifts
ScenarioCWitness == ScenarioC /\ CellsOf("a") # {}

\* three people with identical full availability, headcount 2 in every
\* cell, cap 20
ScenarioD ==
  /\ pc = "done"
  /\ teamMembers = [i \in 1..3 |-> [id |-> i, name |-> NameList[i], availableShifts |-> Full]]
  /\ dayShiftWorkers = 2
  /\ nightShiftWorkers = 2
  /\ maxShiftsPerEmployee = 20

\* C12 - Scenario D: in the assignment returned by generateShifts the total
\* loads of any two of the three people differ by at most 1.
ScenarioDSpread ==
  ScenarioD =>
    \A n, m \in RosterNames(teamMembers) :
       SummaryCount(shifts, n) - SummaryCount(shifts, m) <= 1

\* Scenario D has run to its end: the 28 cells hold two people each
ScenarioDWitness ==
  /\ ScenarioD
  /\ Len(shifts) = NumCells
  /\ \A i \in 1..Len(shifts) : Len(shifts[i].members) = 2

\* the three settings are positive
ConfigPositive ==
  /\ dayShiftWorkers >= 1
  /\ nightShiftWorkers >= 1
  /\ maxShiftsPerEmployee >= 1

\* C13 - Configuration errors are rejected: generateShifts invoked with a
\* non-positive day headcount, night headcount or weekly cap does not compute
\* and store an Assignment (no run ends in setShifts under such settings).
ConfigErrorsRejected ==
  [][(pc = "pass" /\ pc' = "done") => ConfigPositive]_vars

\* a pass has visited its last cell and somebody holds a shift
PassCompleted ==
  /\ pc = "pass"
  /\ shiftIndex > Len(allShifts)
  /\ ShiftCounts(workerShiftCount) # {}

\* C14 - Repair-loop stopping rule: after the k-th completed pass (k = the
\* 0-based iteration + 1), generateShifts stops and returns that pass's
\* Assignment if and only if range <= 1, or range <= 2 and k >= 2, or k = 5;
\* otherwise it starts pass k + 1.
StoppingRule ==
  [][PassCompleted =>
       LET k == iteration + 1
           range == Range(workerShiftCount)
           stop == range <= 1 \/ (range <= 2 /\ k >= 2) \/ k = 5
       IN  IF stop
             THEN pc' = "done" /\ shifts' = newShifts
             ELSE pc' = "pass" /\ iteration' = k /\ shiftIndex' = 1]_vars

\* the cells of the week with at least one available roster member
CandidateCells == {k \in 1..NumCells : EligibleCount(CellDay(k), CellSlot(k)) >= 1}

\* cell visits made by the current call so far
VisitsSoFar == iteration * Len(allShifts) + (shiftIndex - 1)

BoundedPasses ==
  pc \in {"pass", "done"} =>
    /\ iteration \in 0..4
    /\ shiftIndex \in 1..(Len(allShifts) + 1)
    /\ Len(allShifts) = Cardinality(CandidateCells)
    /\ \A k \in CandidateCells :
          \E i \in 1..Len(allShifts) :
             allShifts[i].day = CellDay(k) /\ allShifts[i].timeSlot = CellSlot(k)
    /\ VisitsSoFar <= 5 * 7 * Len(TIME_SLOTS)
    /\ VisitsSoFar <= 140

\* C15 - Bounded termination: a call of generateShifts makes at most 5
\* passes, each pass visits each candidate cell exactly once (the list of
\* the pass holds every candidate cell once and the visits walk it by one),
\* so at most 5 x 7 x |TIME_SLOTS| = 140 cells are visited, and the call
\* terminates.
BoundedTermination ==
  /\ []BoundedPasses
  /\ [][pc = "pass" /\ pc' = "pass" =>
          \/ iteration' = iteration /\ shiftIndex' = shiftIndex + 1
                                     /\ shiftIndex <= Len(allShifts)
          \/ iteration' = iteration + 1 /\ shiftIndex' = 1
                                         /\ shiftIndex = Len(allShifts) + 1]_vars
  /\ (pc = "pass" ~> pc = "done")

\* a call that needed all 5 passes over all 28 cells: 140 visits
BoundedTerminationWitness ==
  /\ pc = "done"
  /\ Len(allShifts) = NumCells
  /\ VisitsSoFar = 140

\* position of a slot in the catalogue, 0-based
SlotPosition(timeSlot) ==
  CHOOSE p \in 0..(Len(TIME_SLOTS) - 1) : TIME_SLOTS[p + 1] = timeSlot

\* (eligible count, day, slot position) of the first cell is strictly below
\* that of the second, lexicographically
PriorityBelow(a, b) ==
  \/ EligibleCount(a.day, a.timeSlot) < EligibleCount(b.day, b.timeSlot)
  \/ /\ EligibleCount(a.day, a.timeSlot) = EligibleCount(b.day, b.timeSlot)
     /\ a.day < b.day
  \/ /\ EligibleCount(a.day, a.timeSlot) = EligibleCount(b.day, b.timeSlot)
     /\ a.day = b.day
     /\ SlotPosition(a.timeSlot) < SlotPosition(b.timeSlot)

\* the names of the roster members available for the cell, in roster order
EligibleList(day, timeSlot) ==
  LET idx == {i \in 1..Len(teamMembers) :
                /\ day \in DOMAIN teamMembers[i].availableShifts
                /\ \E j \in 1..Len(teamMembers[i].availableShifts[day]) :
                      teamMembers[i].availableShifts[day][j] = timeSlot}
      F[i \in 0..Len(teamMembers)] ==
        IF i = 0 THEN <<>>
        ELSE IF i \in idx THEN Append(F[i-1], teamMembers[i].name) ELSE F[i-1]
  IN  F[Len(teamMembers)]

VisitOrder ==
  pc = "pass" =>
    /\ \A i \in 1..Len(allShifts) :
          /\ EligibleCount(allShifts[i].day, allShifts[i].timeSlot) >= 1
          /\ allShifts[i].availableWorkers = EligibleList(allShifts[i].day, allShifts[i].timeSlot)
    /\ \A k \in CandidateCells :
          \E i \in 1..Len(allShifts) :
             allShifts[i].day = CellDay(k) /\ allShifts[i].timeSlot = CellSlot(k)
    /\ \A i \in 1..(Len(allShifts) - 1) : PriorityBelow(allShifts[i], allShifts[i + 1])

\* C16 - Priority ordering: in every pass the cells with at least one
\* eligible person are visited in the strict total order (eligible count,
\* then day, then slot position, all ascending: each cell of the list is
\* strictly below the next one); no step of a pass reorders
\* the list or changes a cell's eligible list, each visit takes the next cell
\* of the list, and a new pass starts again from the first.
PriorityOrdering ==
  /\ []VisitOrder
  /\ [][pc = "pass" =>
          /\ allShifts' = allShifts
          /\ pc' = "pass" => \/ shiftIndex' = shiftIndex + 1 /\ iteration' = iteration
                             \/ shiftIndex' = 1 /\ iteration' = iteration + 1
          /\ Len(newShifts') > Len(newShifts) =>
                /\ newShifts'[Len(newShifts')].day = allShifts[shiftIndex].day
                /\ newShifts'[Len(newShifts')].timeSlot = allShifts[shiftIndex].timeSlot]_vars

\* a later pass is walking a list in which a scarcer cell of a later day
\* comes before a cell of an earlier day
PriorityOrderingWitness ==
  /\ pc = "pass"
  /\ iteration >= 1
  /\ \E i, j \in 1..Len(allShifts) :
        /\ i < j
        /\ j < shiftIndex
        /\ allShifts[i].day > allShifts[j].day
        /\ Len(allShifts[i].availableWorkers) < Len(allShifts[j].availableWorkers)

\* C17 - Recompute from scratch: whatever the shifts state held before the
\* call (empty, or loaded from a shared blob), the state stored by
\* generateShifts is the function of the current roster and settings alone,
\* and it consists of the entries built by this call only.
RecomputedFromScratch ==
  [][(pc = "pass" /\ pc' = "done") =>
       /\ shifts' = GenerateResult(teamMembers, dayShiftWorkers, nightShiftWorkers,
                                   maxShiftsPerEmployee).newShifts
       /\ shifts' = newShifts]_vars

\* a call about to store its result over a loaded assignment, one entry of
\* which names somebody the new assignment does not place in that cell
RecomputedWitness ==
  /\ pc = "pass"
  /\ shiftIndex > Len(allShifts)
  /\ newShifts # <<>>
  /\ \E i \in 1..Len(shifts) :
        shifts[i].members \notin EntryMembers(newShifts, shifts[i].day, shifts[i].timeSlot)

\* C18 - Summary reporting: for every roster member getShiftSummary gives the
\* number of cells of the stored Assignment whose member list contains the
\* member's name (0 when there is none), and right after generateShifts this
\* is the member's load of the final pass.
SummaryCountsCells ==
  \A i \in 1..Len(teamMembers) :
     /\ SummaryCount(shifts, teamMembers[i].name) = Cardinality(CellsOf(teamMembers[i].name))
     /\ pc = "done" =>
           SummaryCount(shifts, teamMembers[i].name) = workerShiftCount[teamMembers[i].name]

\* C19 - Settings stay positive: in every reachable state of the component
\* (after any blur commits, loads of saved settings and loads of a shared
\* blob) dayShiftWorkers, nightShiftWorkers and maxShiftsPerEmployee are
\* each at least 1.
SettingsStayPositive ==
  \A v \in {dayShiftWorkers, nightShiftWorkers, maxShiftsPerEmployee} : v >= 1

\* C20 - Name uniqueness: in every roster reachable through addTeamMember,
\* saveEditMember, removeTeamMember, addPresetWorkers and the roster loads,
\* no two team members have the same name.
NameUniqueness == Cardinality(RosterNames(teamMembers)) = Len(teamMembers)

\* the members stored by the visit just made (none when no entry was pushed)
SelectedNow == IF Len(newShifts') > Len(newShifts)
                 THEN newShifts'[Len(newShifts')].members
                 ELSE <<>>

\* C21 - Greedy load dominance: at every cell visit, no person of the cell's
\* eligible list who is under the cap and is left unselected has a load
\* strictly smaller than the load, before the increment, of a selected person.
GreedyLoadDominance ==
  [][VisitCell =>
      LET shift == allShifts[shiftIndex]
          underCap == {i \in 1..Len(shift.availableWorkers) :
                         workerShiftCount[shift.availableWorkers[i]] < maxShiftsPerEmployee}
          unselected == {shift.availableWorkers[i] : i \in
                           {j \in underCap :
                              Occurrences(SelectedNow, shift.availableWorkers[j])
                                < Cardinality({m \in underCap :
                                     shift.availableWorkers[m] = shift.availableWorkers[j]})}}
      IN  \A u \in unselected :
             \A s \in 1..Len(SelectedNow) :
                workerShiftCount[u] >= workerShiftCount[SelectedNow[s]]
  ]_vars

\* the visit just made chose one of two candidates under the cap, and the one
\* left out carried strictly more load than the chosen one had before
GreedyLoadWitness ==
  /\ pc = "pass"
  /\ shiftIndex > 1
  /\ newShifts # <<>>
  /\ LET shift == allShifts[shiftIndex - 1]
         e == newShifts[Len(newShifts)]
     IN  /\ e.day = shift.day
         /\ e.timeSlot = shift.timeSlot
         /\ Len(e.members) = 1
         /\ \E i \in 1..Len(shift.availableWorkers) :
               LET u == shift.availableWorkers[i]
               IN  /\ u # e.members[1]
                   /\ workerShiftCount[u] < maxShiftsPerEmployee
                   /\ workerShiftCount[u] > workerShiftCount[e.members[1]] - 1

\* the roster members available for the cell and under the cap at this visit
CandidatesNow ==
  LET shift == allShifts[shiftIndex]
  IN  {i \in 1..Len(teamMembers) :
         /\ IsAvailable(teamMembers[i], shift.day, shift.timeSlot)
         /\ workerShiftCount[teamMembers[i].name] < maxShiftsPerEmployee}

\* C22 - Availability tie-break: at every cell visit, of two candidates under
\* the cap with equal load the one with strictly greater total weekly
\* availability is selected whenever the other one is; the ratio key and the
\* availability key never order two equal-load candidates in opposite
\* directions; candidates tied on all keys keep roster order.
AvailabilityTieBreak ==
  [][VisitCell =>
      LET shift == allShifts[shiftIndex]
          sorted == SortedWorkers(shift, workerShiftCount, workerAvailability,
                                  maxShiftsPerEmployee)
          eligible == EligibleWorkers(shift, workerShiftCount, maxShiftsPerEmployee)
      IN  /\ \A p, q \in CandidatesNow :
                LET x == teamMembers[p].name
                    y == teamMembers[q].name
                IN  (/\ x # y
                     /\ workerShiftCount[x] = workerShiftCount[y]
                     /\ CountAvailable(teamMembers[p]) > CountAvailable(teamMembers[q])
                     /\ Includes(SelectedNow, y))
                      => Includes(SelectedNow, x)
          /\ \A x, y \in DOMAIN workerShiftCount :
                (workerShiftCount[x] = workerShiftCount[y]
                   /\ workerAvailability[x] > workerAvailability[y])
                  => workerShiftCount[x] * Max(workerAvailability[y], 1)
                       <= workerShiftCount[y] * Max(workerAvailability[x], 1)
          /\ \A n \in DOMAIN workerShiftCount :
                LET tied(w) == /\ workerShiftCount[w] = workerShiftCount[n]
                               /\ workerAvailability[w] = workerAvailability[n]
                IN  SelectSeq(sorted, tied) = SelectSeq(eligible, tied)
  ]_vars

\* every entry of the list has a cell of its own
OneEntryPerCell(shiftList) ==
  \A i, j \in 1..Len(shiftList) :
     (shiftList[i].day = shiftList[j].day /\ shiftList[i].timeSlot = shiftList[j].timeSlot)
       => i = j

\* the entries under construction belong to cells visited in the current pass
EntriesOfCurrentPass ==
  /\ Len(newShifts) <= shiftIndex - 1
  /\ \A i \in 1..Len(newShifts) :
        \E k \in 1..(shiftIndex - 1) :
           /\ allShifts[k].day = newShifts[i].day
           /\ allShifts[k].timeSlot = newShifts[i].timeSlot

\* C23 - Repair reset: at the start of every pass (so of every pass after the
\* first) every load is 0 and the assignment under construction is empty; the
\* entries under construction are entries of the current pass, the assignment
\* stored at the end is the one built by the last pass, and no assignment has
\* two entries for one (day, slot) cell.
RepairReset ==
  /\ [](pc = "pass" /\ shiftIndex = 1 =>
          /\ newShifts = <<>>
          /\ \A n \in DOMAIN workerShiftCount : workerShiftCount[n] = 0)
  /\ [](pc \in {"pass", "done"} => EntriesOfCurrentPass)
  /\ [](\A L \in Assignments : OneEntryPerCell(L))
  /\ [][(pc = "pass" /\ iteration' = iteration + 1) =>
          /\ newShifts' = <<>>
          /\ \A n \in DOMAIN workerShiftCount' : workerShiftCount'[n] = 0]_vars
  /\ [][(pc = "pass" /\ pc' = "done") => shifts' = newShifts]_vars

\* a call that ended after a second or later pass and stored several entries,
\* fewer than two passes would have pushed
RepairResetWitness ==
  /\ pc = "done"
  /\ iteration >= 1
  /\ Len(shifts) >= 2
  /\ shifts = newShifts
  /\ Len(shifts) <= Len(allShifts)

\* the member lists the slot for the day; a missing day key lists nothing
ListsSlot(member, day, timeSlot) ==
  /\ day \in DOMAIN member.availableShifts
  /\ \E j \in 1..Len(member.availableShifts[day]) : member.availableShifts[day][j] = timeSlot

\* C24 - Availability index consistency: with pairwise distinct names, a name
\* is in a cell's eligible list iff its member lists the cell's slot for the
\* cell's day, every candidate cell has a nonempty eligible list, and each
\* person's total weekly availability is the number of candidate cells whose
\* eligible list contains the person.
AvailabilityIndexConsistent ==
  (NamesDistinct /\ pc \in {"pass", "done"}) =>
    /\ \A k \in 1..Len(allShifts) :
          /\ Len(allShifts[k].availableWorkers) > 0
          /\ \A m \in 1..Len(teamMembers) :
                Includes(allShifts[k].availableWorkers, teamMembers[m].name)
                  <=> ListsSlot(teamMembers[m], allShifts[k].day, allShifts[k].timeSlot)
    /\ \A m \in 1..Len(teamMembers) :
          workerAvailability[teamMembers[m].name] =
            Cardinality({k \in 1..Len(allShifts) :
                           Includes(allShifts[k].availableWorkers, teamMembers[m].name)})

\* two people with distinct names, a cell only one of them is eligible for, a
\* cell of the week that is no candidate, and a person eligible in some cells
\* but not in all
AvailabilityIndexWitness ==
  /\ pc = "pass"
  /\ NamesDistinct
  /\ Len(teamMembers) = 2
  /\ Len(allShifts) < NumCells
  /\ \E k \in 1..Len(allShifts) : Len(allShifts[k].availableWorkers) = 1
  /\ \E k \in 1..Len(allShifts) : Len(allShifts[k].availableWorkers) = 2
  /\ \E m \in 1..Len(teamMembers) :
        /\ workerAvailability[teamMembers[m].name] > 0
        /\ workerAvailability[teamMembers[m].name] < Len(allShifts)

\* C25 - Legacy generator, minimum staffing: every cell recorded by the
\* earlier generateShifts has at least minWorkers members, minWorkers being
\* minDayWorkers for day slots and minNightWorkers for night slots.
LegacyMinimumStaffing ==
  \A L \in Assignments : \A i \in 1..Len(L) :
     Len(L[i].members) >= (IF LegacyIsDayShift(L[i].timeSlot) THEN minDayWorkers
                                                               ELSE minNightWorkers)

\* the slots of a day in which the list places the name
SlotsOfDay(shiftList, name, day) ==
  {i \in 1..Len(shiftList) : shiftList[i].day = day /\ Includes(shiftList[i].members, name)}

\* C26 - Legacy generator, daily limit: with distinct names no member is
\* assigned to more than 2 time slots of one day, and no member is assigned
\* to a slot whose shift category is in the member's unavailableShifts.
LegacyDailyLimit ==
  NamesDistinct =>
    \A L \in Assignments : \A m \in 1..Len(teamMembers) :
       /\ \A day \in AllDays : Cardinality(SlotsOfDay(L, teamMembers[m].name, day)) <= 2
       /\ \A i \in 1..Len(L) :
             Includes(L[i].members, teamMembers[m].name)
               => ~Includes(teamMembers[m].unavailableShifts, getShiftCategory(L[i].timeSlot))

\* a member who reached 2 slots on a day and is missing from a later cell of
\* that day whose category is open to them, next to a member kept out of a
\* recorded cell by an unavailable category
LegacyDailyLimitWitness ==
  /\ pc = "done"
  /\ NamesDistinct
  /\ Len(teamMembers) = 2
  /\ \E m \in 1..Len(teamMembers) : \E i \in 1..Len(shifts) :
        /\ Cardinality(SlotsOfDay(shifts, teamMembers[m].name, shifts[i].day)) = 2
        /\ ~Includes(shifts[i].members, teamMembers[m].name)
        /\ ~Includes(teamMembers[m].unavailableShifts, getShiftCategory(shifts[i].timeSlot))
        /\ \A j \in SlotsOfDay(shifts, teamMembers[m].name, shifts[i].day) : j < i
  /\ \E m \in 1..Len(teamMembers) : \E i \in 1..Len(shifts) :
        /\ Includes(teamMembers[m].unavailableShifts, getShiftCategory(shifts[i].timeSlot))
        /\ ~Includes(shifts[i].members, teamMembers[m].name)

\* what one pass over the list of this call gives, from zeroed counts
SinglePass ==
  PassResult(allShifts, workerAvailability, dayShiftWorkers, nightShiftWorkers,
             maxShiftsPerEmployee)

\* C27 - Repair passes are identical: at the end of every pass of the repair
\* loop the assignment under construction and the loads are those of a single
\* pass, and the assignment stored by generateShifts is the result of a
\* single pass, however many passes ran.
PassesIdentical ==
  /\ (pc = "pass" /\ shiftIndex > Len(allShifts)) =>
        /\ newShifts = SinglePass.newShifts
        /\ workerShiftCount = SinglePass.count
  /\ pc = "done" =>
        /\ shifts = SinglePass.newShifts
        /\ workerShiftCount = SinglePass.count

\* a call that stored its result after three or more passes, with loads that
\* still differ by more than 1
PassesIdenticalWitness ==
  /\ pc = "done"
  /\ iteration >= 2
  /\ Len(shifts) >= 2
  /\ Range(workerShiftCount) > 1

\* C28: after any sequence of generateShifts, manual edits (saveEdit) and
\* loads of a shared blob (normalizeShifts), the shifts state holds at most
\* one entry for each (day, timeSlot) pair
OneEntryPerCellInState == OneEntryPerCell(shifts)

\* a state where saveEdit appended a cell to the two cells of a loaded blob
\* and replaced the members of a loaded cell
OneEntryPerCellWitness ==
  /\ Len(shifts) = 3
  /\ shifts[3].day = 0 /\ shifts[3].timeSlot = "06:00-12:00"
  /\ shifts[1].day = 0 /\ shifts[1].timeSlot = "18:00-00:00"
  /\ shifts[1].members = <<"b">>
  /\ editingShift = null

\* the names stored for the cell in a list of shifts
StoredNames(shiftList, cell) ==
  UNION {{members[j] : j \in 1..Len(members)} :
         members \in EntryMembers(shiftList, cell.day, cell.timeSlot)}

\* C29: saveEdit stores into the edited cell only names of current roster
\* members, and a name whose member is not available for the cell only when
\* the confirmation dialog was open and accepted; a step out of the dialog
\* either stores and closes the edit, or (declined) leaves shifts,
\* editingShift and editValue as they were
ManualOverrideGuard ==
  /\ [][(editingShift # null /\ editingShift' = null /\ shifts' # shifts) =>
          /\ StoredNames(shifts', editingShift) \subseteq RosterNames(teamMembers)
          /\ (\E name \in StoredNames(shifts', editingShift) :
                 ~NameAvailable(name, editingShift.day, editingShift.timeSlot))
               => Confirming]_vars
  /\ [][Confirming =>
          \/ UNCHANGED <<shifts, editingShift, editValue>>
          \/ /\ editingShift' = null
             /\ editValue' = <<>>
             /\ HasEntry(shifts', editingShift.day, editingShift.timeSlot)]_vars

\* the dialog is open for a cell that already stores, after an accepted
\* confirmation, a roster member who is not available for it
ManualOverrideWitness ==
  /\ pc = "confirm"
  /\ editingShift = [day |-> 0, timeSlot |-> "18:00-00:00"]
  /\ EntryMembers(shifts, 0, "18:00-00:00") = {<<"b">>}
  /\ "b" \in RosterNames(teamMembers)
  /\ ~NameAvailable("b", 0, "18:00-00:00")

\* a day list is a duplicate-free subset of TIME_SLOTS in catalog order
InCatalogOrder(slots) ==
  /\ \A j \in 1..Len(slots) : Includes(TIME_SLOTS, slots[j])
  /\ \A j, k \in 1..Len(slots) :
        j < k => IndexOf(TIME_SLOTS, slots[j]) < IndexOf(TIME_SLOTS, slots[k])

\* C30: after any sequence of addTeamMember, saveEditMember, addPresetWorkers,
\* removeTeamMember and roster loads (local storage or shared blob), every
\* team member's availableShifts has keys only in 0..6, no empty day list,
\* every day list a duplicate-free subset of TIME_SLOTS in catalog order, and
\* normalizeAvailabilityMap returns it unchanged
RosterAvailabilityNormalized ==
  \A i \in 1..Len(teamMembers) :
     LET availableShifts == teamMembers[i].availableShifts
     IN  /\ DOMAIN availableShifts \subseteq 0..6
         /\ \A day \in DOMAIN availableShifts :
               /\ Len(availableShifts[day]) > 0
               /\ InCatalogOrder(availableShifts[day])
         /\ normalizeAvailabilityMap(availableShifts) = availableShifts

\* a roster holding a member loaded with legacy or damaged availability and
\* a member created later through the form with a reordered day list
RosterNormalizedWitness ==
  /\ pc = "idle"
  /\ \E i, j \in 1..Len(teamMembers) :
        /\ teamMembers[i].id <= 2
        /\ teamMembers[j].id > 2
        /\ teamMembers[i].availableShifts = [d \in {0} |-> <<"06:00-12:00", "12:00-18:00">>]
        /\ teamMembers[j].availableShifts = teamMembers[i].availableShifts

====
